---------------------------- MODULE Spec2Model ----------------------------
(***************************************************************************)
(* Model of the LLM-workload network emulation harness:                    *)
(*   - the trace synthesizer  (trace_generation/full_trace_generation.py)  *)
(*   - the trace replayer     (network/multi_llm.py)                       *)
(*   - the VL2 routing controller (network/vl2_switch_queue.py)            *)
(*                                                                         *)
(* Units.  Times of the synthesizer are in milliseconds (the code uses     *)
(* float seconds), data sizes are in bytes (the code uses kilobytes,       *)
(* bytes = kb * 1000).  With these units every quantity the synthesizer    *)
(* computes on the inputs drawn below is an integer, so the float          *)
(* arithmetic of the code is exact on them.                                *)
(***************************************************************************)
EXTENDS Integers, Sequences, FiniteSets, TLC

VARIABLES
    \* ---- trace synthesizer (process_agent_trace) ----
    trace,            \* the logical trace read from the input file
    senders,          \* sender -> parallelism type, chosen at random
    full_trace,       \* the synthesized flow events (after the node map)
    input_size,       \* bytes carried from the previous entry
    cumulative_time,  \* ms
    spos,             \* index of the next logical entry of the loop
    iterations,       \* per finished loop iteration: what it read and emitted
    \* ---- trace replayer (run_multi_trace_experiment) ----
    events,           \* the merged event list, sorted by time
    host_map,         \* namespaced process id -> physical host
    time_scale,       \* the time_scale argument
    now,              \* the wall clock, time.time()
    start_wall_time,  \* the wall clock when the replay loop starts
    rpos,             \* index of the next event of the replay loop
    flows_started,
    flows_skipped,
    host_port_counter,\* destination host -> number of flows launched to it
    launches,         \* the client commands handed to the hosts, in order
    timing,           \* per processed event: clock at its turn, sleep, launch
    trace_files,      \* the contents of the files named by trace_file_paths
    all_logical_procs,\* the namespaced process ids the loader returned
    hosts,            \* net.hosts
    percentage,       \* the percentage argument, in percent
    phase,            \* position of run_multi_trace_experiment
    \* ---- routing controller (VL2Switch) and the fabric it drives ----
    network_graph,    \* [nodes, port]: the learned graph, port keyed by edge
    datapaths,        \* DPIDs of the connected switches
    tor_switches,
    aggr_switches,
    inter_switches,
    flow_table,       \* switch -> the rules in its table
    ctl_chan,         \* switch -> FlowMod / PacketOut messages still in flight
    pktin_queue,      \* PacketIn events waiting for the controller
    wire,             \* frames in flight: [sw, port, pkt] arriving at sw on port
    last_in,          \* the PacketIn handled by the last handler run
    last_out,         \* the messages that run sent, in the order of send_msg
    last_path,        \* the path that run installed, None when it installed none
    installed,        \* every install so far: [eth_dst, dscp, path]
    pkts_left,        \* frames the hosts may still send
    query,            \* the last direct call of a path function
    result,           \* and what it returned
    \* ---- capacity check (server_management) ----
    agents,           \* the process descriptor: per agent its (node, gpu cost) list
    servers,          \* tor -> host -> available GPUs, as the caller holds it
    node_maps,        \* the node maps of the processes started and not ended
    calls,            \* number of start_process calls so far
    last_start,       \* the last start_process call: table passed in, results
    \* ---- metrics analyzer (analyze_iperf_results) ----
    analyzed,         \* number of log files the loop has gone through
    fcts,             \* durations of the successful flows
    flow_sizes,
    total_bytes,
    dist_inf_fcts,    \* the same, distributed inference flows only
    dist_inf_bytes,
    agent_fcts,       \* the same, agent-to-agent flows only
    agent_bytes,
    empty_files,
    server_busy,
    connection_refused,
    incomplete_json,
    json_parse_errors,
    iperf_errors,     \* the collected messages of the other tool errors
    sample_contents,  \* number of collected samples of problematic content
    last_log,         \* the log file of the last loop iteration and its class
    report,           \* the error breakdown the function reports
    \* ---- coding pipeline (run_coding_pipeline) ----
    pipeline,         \* the call: its position, num_workers, num_tasks, its result
    task_queue,       \* TaskQueue.tasks: the (task_id, task) pairs not taken yet
    workers,          \* worker index -> position in its loop, task in hand, tasks_completed
    worker_results,   \* TaskSupervisor.worker_results: the (worker_id, results) entries in insertion order
    llm_calls         \* the task ids the workers sent to llm.invoke that returned

synthVars == <<trace, senders, full_trace, input_size, cumulative_time, spos,
               iterations>>
replayVars == <<events, host_map, time_scale, now, start_wall_time, rpos,
                flows_started, flows_skipped, host_port_counter, launches, timing,
                trace_files, all_logical_procs, hosts, percentage, phase>>

ctlVars == <<network_graph, datapaths, tor_switches, aggr_switches, inter_switches,
             flow_table, ctl_chan, pktin_queue, wire, last_in, last_out, last_path,
             installed, pkts_left, query, result>>

capVars == <<agents, servers, node_maps, calls, last_start>>
anaVars == <<analyzed, fcts, flow_sizes, total_bytes, dist_inf_fcts, dist_inf_bytes,
             agent_fcts, agent_bytes, empty_files, server_busy, connection_refused,
             incomplete_json, json_parse_errors, iperf_errors, sample_contents,
             last_log, report>>
pipeVars == <<pipeline, task_queue, workers, worker_results, llm_calls>>
vars == <<synthVars, replayVars, ctlVars, capVars, anaVars, pipeVars>>

(***************************************************************************)
(* Generic helpers                                                         *)
(***************************************************************************)
Range(s) == {s[i] : i \in DOMAIN s}

RECURSIVE Concat(_)
Concat(ss) == IF ss = <<>> THEN <<>> ELSE Head(ss) \o Concat(Tail(ss))

\* Python's // on numbers: floor division (d > 0)
FloorDiv(a, d) == a \div d

(***************************************************************************)
(* Trace synthesizer                                                       *)
(***************************************************************************)
MSG_SIZE == 119435
SECONDS_PER_TOKEN == 4
NUM_NODES == 8
BYTES_PER_TOKEN == 4

\* bounds of the inputs
MaxEntries == 3

Types == {"pipeline", "hybrid", "tensor"}
AgentIds == {0}
GenTimes == {0, 16}
DataSizes == {0, 8, 24}
ReceiverLists == {<<-1>>, <<1, 2>>}

\* logical entries: the external user (-1) seeds agent 0, agent 0 sends to the
\* agents 1 and 2 or to the final sink (-1)
Entries ==
    [sender : {-1}, receiver : {<<0>>}, llm_gen_time : {0}, data_size : DataSizes]
    \cup
    [sender : AgentIds, receiver : ReceiverLists,
     llm_gen_time : GenTimes, data_size : DataSizes]

\* senders of the trace other than the external user (lines 41-43)
TraceSenders(tr) == {tr[i].sender : i \in DOMAIN tr} \ {-1}

\* get_time_breakdown: size in bytes, generation_time in ms
get_time_breakdown(size, generation_time) ==
    LET tokens == size \div BYTES_PER_TOKEN
        decode == tokens * SECONDS_PER_TOKEN
        prefill == generation_time - decode
    IN  [prefill |-> prefill, decode |-> decode]

get_message_size_and_interval(in_size, output_size, generation_time, nodes) ==
    LET tb == get_time_breakdown(output_size, generation_time)
    IN  [prefill_interval |-> tb.prefill \div nodes,
         decode_interval  |-> SECONDS_PER_TOKEN,
         prefill_size     |-> MSG_SIZE * (in_size \div BYTES_PER_TOKEN) * 2,
         decode_size      |-> MSG_SIZE]

\* nodes[sender]: the sub-node ids str(sender + i/10), i = 0..7, as <<sender, i>>
node_list(sender) == [k \in 1..NUM_NODES |-> <<sender, k - 1>>]

\* the process-descriptor map nodes, the first element of full_trace
\* (lines 45-62): sender -> its sub-node ids (each with GPU cost 1)
ProcessDescriptor(sendertypes) == [s \in DOMAIN sendertypes |-> node_list(s)]

Event(s, r, t, sz) == [sender |-> s, receiver |-> r, time |-> t, size |-> sz]

AllPairs_ColumnMajor(n) == [k \in 1..(n * n) |-> <<(k - 1) % n, (k - 1) \div n>>]

\* for i in range(n): for j in range(n): if i != j  (row-major)
AllPairs(n) == [k \in 1..(n * n) |-> <<(k - 1) \div n, (k - 1) % n>>]
IsOffDiagonal(p) == p[1] # p[2]
OrderedPairs(n) == SelectSeq(AllPairs(n), IsOffDiagonal)

\* one all-to-all tick of the tensor strategy (lines 87-96, 101-110)
TensorTick(nl, t, sz) ==
    LET ps == OrderedPairs(Len(nl))
    IN  [k \in 1..Len(ps) |-> Event(nl[ps[k][1] + 1], <<nl[ps[k][2] + 1]>>, t, sz)]

\* one tick of the hybrid strategy: groups [0,1],[2,3],[4,5],[6,7] (lines 116-141)
HybridTick(nl, t, sz) ==
    Concat([g \in 1..4 |->
              << Event(nl[2 * g - 1], <<nl[2 * g]>>, t, sz),
                 Event(nl[2 * g], <<nl[2 * g - 1]>>, t, sz) >>])

\* one decode tick of the pipeline strategy (lines 176-183)
PipelineTick(nl, t, sz) ==
    [k \in 1..(Len(nl) - 1) |-> Event(nl[k], <<nl[k + 1]>>, t, sz)]

PipelinePrefill_SameTime(nl, cum, pi, sz) ==
    [k \in 1..(Len(nl) - 1) |-> Event(nl[k], <<nl[k + 1]>>, cum + pi, sz)]

\* the prefill sub-flows of the pipeline strategy (lines 164-172)
PipelinePrefill(nl, cum, pi, sz) ==
    [k \in 1..(Len(nl) - 1) |-> Event(nl[k], <<nl[k + 1]>>, cum + k * pi, sz)]

\* while local_time + decode_interval < llm_gen_time: local_time += decode_interval
RECURSIVE DecodeTimes(_, _, _)
DecodeTimes(local_time, decode_interval, gen) ==
    IF local_time + decode_interval < gen
    THEN <<local_time + decode_interval>>
         \o DecodeTimes(local_time + decode_interval, decode_interval, gen)
    ELSE <<>>

\* the sub-flows of one non-skipped entry (lines 80-183)
SubFlows(entry, type, in_size, cum) ==
    LET nl == node_list(entry.sender)
        n  == Len(nl)
        mp == get_message_size_and_interval(in_size, entry.data_size,
                                            entry.llm_gen_time, n)
        pi == mp.prefill_interval
        steps == IF type = "pipeline" THEN n - 1 ELSE n
        dts == DecodeTimes(steps * pi, mp.decode_interval, entry.llm_gen_time)
    IN  IF type = "tensor" THEN
            Concat([s \in 1..n |->
                      TensorTick(nl, cum + s * pi, FloorDiv(mp.prefill_size, n))])
            \o Concat([d \in 1..Len(dts) |->
                      TensorTick(nl, cum + dts[d], mp.decode_size)])
        ELSE IF type = "hybrid" THEN
            Concat([s \in 1..n |->
                      HybridTick(nl, cum + s * pi, FloorDiv(mp.prefill_size, n))])
            \o Concat([d \in 1..Len(dts) |->
                      HybridTick(nl, cum + dts[d], mp.decode_size)])
        ELSE
            PipelinePrefill(nl, cum, pi, mp.prefill_size)
            \o Concat([d \in 1..Len(dts) |->
                      PipelineTick(nl, cum + dts[d], mp.decode_size)])

AppMessage_AtStart(entry, cum) ==
    Event(node_list(entry.sender)[NUM_NODES],
          [k \in 1..Len(entry.receiver) |-> <<entry.receiver[k], 0>>],
          cum,
          entry.data_size)

\* the final application message (lines 185-190)
AppMessage(entry, cum) ==
    Event(node_list(entry.sender)[NUM_NODES],
          [k \in 1..Len(entry.receiver) |-> <<entry.receiver[k], 0>>],
          cum + entry.llm_gen_time,
          entry.data_size)

IsSkipped_NoGenTime(entry, in_size) ==
    \/ entry.sender = -1
    \/ -1 \in Range(entry.receiver)
    \/ in_size = 0

\* the condition of line 67
IsSkipped(entry, in_size) ==
    \/ entry.sender = -1
    \/ -1 \in Range(entry.receiver)
    \/ entry.llm_gen_time = 0
    \/ in_size = 0

\* the record of one loop iteration: the entry index, the carried input size
\* and cumulative_time it started with, the positions from..to of the events
\* it appended (to < from when none), and the values it left behind
Iteration(idx, emitted, in_after, cum_after) ==
    [idx |-> idx, in_size |-> input_size, cum |-> cumulative_time,
     from |-> Len(full_trace) + 1, to |-> Len(full_trace) + Len(emitted),
     in_after |-> in_after, cum_after |-> cum_after]

SynthStart ==
    /\ trace \in UNION {[1..n -> Entries] : n \in 1..MaxEntries}
    /\ trace[1].sender = -1
    /\ senders \in [TraceSenders(trace) -> Types]
    /\ full_trace = <<>>
    /\ input_size = 0
    /\ cumulative_time = 0
    /\ spos = 1
    /\ iterations = <<>>

\* one iteration of the loop of lines 66-193, entry skipped
SkipEntry ==
    /\ spos <= Len(trace)
    /\ IsSkipped(trace[spos], input_size)
    /\ input_size' = trace[spos].data_size
    /\ spos' = spos + 1
    /\ iterations' = Append(iterations,
                            Iteration(spos, <<>>, trace[spos].data_size, cumulative_time))
    /\ UNCHANGED <<trace, senders, full_trace, cumulative_time>>
    /\ UNCHANGED <<replayVars, ctlVars, capVars, anaVars, pipeVars>>

\* one iteration of the loop of lines 66-193, entry expanded
ExpandEntry ==
    /\ spos <= Len(trace)
    /\ ~IsSkipped(trace[spos], input_size)
    /\ LET entry == trace[spos]
           emitted == SubFlows(entry, senders[entry.sender], input_size, cumulative_time)
                      \o <<AppMessage(entry, cumulative_time)>>
       IN  /\ full_trace' = full_trace \o emitted
           /\ cumulative_time' = cumulative_time + entry.llm_gen_time
           /\ input_size' = entry.data_size
           /\ iterations' = Append(iterations,
                                   Iteration(spos, emitted, entry.data_size,
                                             cumulative_time + entry.llm_gen_time))
    /\ spos' = spos + 1
    /\ UNCHANGED <<trace, senders>>
    /\ UNCHANGED <<replayVars, ctlVars, capVars, anaVars, pipeVars>>

\* the synthesizer has not been started
SynthIdle ==
    /\ trace = <<>>
    /\ senders = <<>>
    /\ full_trace = <<>>
    /\ input_size = 0
    /\ cumulative_time = 0
    /\ spos = 1
    /\ iterations = <<>>

(***************************************************************************)
(* Trace replayer                                                          *)
(***************************************************************************)
BASE_PORT == 5201
DEFAULT_SIZE == 1024
PERCENT_BASE == 100

\* bounds of the inputs
MaxEvents == 2
MaxEventTime == 2
MaxOversleep == 1
MaxCmdTime == 1
num_server_ports == 2

\* namespaced process ids "k-a.s" as <<k, a, s>>; the group key "k-a" is <<k, a>>
P1 == <<0, 0, 0>>
P2 == <<0, 0, 1>>
P3 == <<0, 1, 0>>
PX == <<0, 2, 0>>
all_logical_processes == <<P1, P2, P3>>
net_hosts == <<"h0", "h1">>
TimeScales == {0, 1}
\* event sizes in half bytes, so that int() has something to truncate
HalfSizes == {1, 5}

EventShapes ==
    [sender : {P1, PX}, receiver : {<<P2>>, <<P3, P2>>, <<PX>>},
     time : 0..MaxEventTime, size2 : HalfSizes]

IsSortedByTime(evs) ==
    \A i \in 1..(Len(evs) - 1) : evs[i].time <= evs[i + 1].time

\* proc_name.rsplit('.', 1)[0]
GroupOf(proc) == <<proc[1], proc[2]>>

CeilDiv(a, b) == (a + b - 1) \div b
Min(a, b) == IF a <= b THEN a ELSE b

\* int(x) of Python for x = x2 / 2: truncation toward zero
IntOfHalves(x2) == IF x2 >= 0 THEN x2 \div 2 ELSE -((-x2) \div 2)

\* mutant: consecutive placement, the members of a group share one host
map_processes_to_hosts_Consecutive(all_hosts, procs, percent) ==
    LET ceiled == CeilDiv(Len(all_hosts) * percent, PERCENT_BASE)
        active_count == IF ceiled = 0 THEN 1 ELSE ceiled
        physical_pool == SubSeq(all_hosts, 1, Min(active_count, Len(all_hosts)))
        FirstOfGroup(pr) == CHOOSE n \in DOMAIN procs :
                               /\ GroupOf(procs[n]) = GroupOf(pr)
                               /\ \A m \in 1..(n - 1) : GroupOf(procs[m]) # GroupOf(pr)
    IN  [pr \in Range(procs) |->
            physical_pool[((FirstOfGroup(pr) - 1) % Len(physical_pool)) + 1]]

\* map_processes_to_hosts, percent_usage given in percent
map_processes_to_hosts(all_hosts, procs, percent) ==
    LET total_physical == Len(all_hosts)
        ceiled == CeilDiv(total_physical * percent, PERCENT_BASE)
        active_count == IF ceiled = 0 THEN 1 ELSE ceiled
        physical_pool == SubSeq(all_hosts, 1, Min(active_count, total_physical))
        \* enumerate(group_procs): position of the proc within its group
        IndexInGroup(n) ==
            Cardinality({m \in 1..(n - 1) : GroupOf(procs[m]) = GroupOf(procs[n])})
        LastPos(pr) == CHOOSE n \in DOMAIN procs :
                          /\ procs[n] = pr
                          /\ \A m \in DOMAIN procs : procs[m] = pr => m <= n
    IN  [pr \in Range(procs) |->
            physical_pool[(IndexInGroup(LastPos(pr)) % Len(physical_pool)) + 1]]

\* size_bytes of lines 210-211
SizeBytes(event) ==
    LET size_bytes == IntOfHalves(event.size2)
    IN  IF size_bytes < 1 THEN DEFAULT_SIZE ELSE size_bytes

\* mutant: a skipped receiver ends the loop over the receivers (break for continue)
RECURSIVE LaunchReceivers_Break(_, _, _, _, _, _)
LaunchReceivers_Break(i, event, k, hmap, counters, at) ==
    IF k > Len(event.receiver)
    THEN [cmds |-> <<>>, skipped |-> 0, counters |-> counters]
    ELSE
      LET rx_name == event.receiver[k]
      IN  IF rx_name \notin DOMAIN hmap \/ hmap[event.sender] = hmap[rx_name]
          THEN [cmds |-> <<>>, skipped |-> 1, counters |-> counters]
          ELSE
            LET phys_rx == hmap[rx_name]
                count == IF phys_rx \in DOMAIN counters THEN counters[phys_rx] ELSE 0
                port == BASE_PORT + (count % num_server_ports)
                counters2 == [h \in DOMAIN counters \cup {phys_rx} |->
                                 IF h = phys_rx THEN count + 1 ELSE counters[h]]
                cmd == [idx |-> i, k |-> k, sender |-> event.sender, rx |-> rx_name,
                        from |-> hmap[event.sender], to |-> phys_rx,
                        port |-> port, size |-> IF IntOfHalves(event.size2) < 1
                                                THEN DEFAULT_SIZE
                                                ELSE IntOfHalves(event.size2),
                        at |-> at]
                rest == LaunchReceivers_Break(i, event, k + 1, hmap, counters2, at)
            IN  [rest EXCEPT !.cmds = <<cmd>> \o @]

\* a receiver skipped for sharing the sender's host advances the counter of that host
RECURSIVE LaunchReceivers_SkipCounts(_, _, _, _, _, _)
LaunchReceivers_SkipCounts(i, event, k, hmap, counters, at) ==
    IF k > Len(event.receiver)
    THEN [cmds |-> <<>>, skipped |-> 0, counters |-> counters]
    ELSE
      LET rx_name == event.receiver[k]
      IN  IF rx_name \notin DOMAIN hmap
          THEN LET rest == LaunchReceivers_SkipCounts(i, event, k + 1, hmap, counters, at)
               IN  [rest EXCEPT !.skipped = @ + 1]
          ELSE
            LET phys_rx == hmap[rx_name]
                count == IF phys_rx \in DOMAIN counters THEN counters[phys_rx] ELSE 0
                port == BASE_PORT + (count % num_server_ports)
                counters2 == [h \in DOMAIN counters \cup {phys_rx} |->
                                 IF h = phys_rx THEN count + 1 ELSE counters[h]]
                cmd == [idx |-> i, k |-> k, sender |-> event.sender, rx |-> rx_name,
                        from |-> hmap[event.sender], to |-> phys_rx,
                        port |-> port, size |-> SizeBytes(event), at |-> at]
                rest == LaunchReceivers_SkipCounts(i, event, k + 1, hmap, counters2, at)
            IN  IF hmap[event.sender] = phys_rx
                THEN [rest EXCEPT !.skipped = @ + 1]
                ELSE [rest EXCEPT !.cmds = <<cmd>> \o @]

\* the loop over the receivers of one event, lines 218-242: the commands
\* launched, the number of skips and the port counters afterwards
RECURSIVE LaunchReceivers(_, _, _, _, _, _)
LaunchReceivers(i, event, k, hmap, counters, at) ==
    IF k > Len(event.receiver)
    THEN [cmds |-> <<>>, skipped |-> 0, counters |-> counters]
    ELSE
      LET rx_name == event.receiver[k]
      IN  IF rx_name \notin DOMAIN hmap \/ hmap[event.sender] = hmap[rx_name]
          THEN LET rest == LaunchReceivers(i, event, k + 1, hmap, counters, at)
               IN  [rest EXCEPT !.skipped = @ + 1]
          ELSE
            LET phys_rx == hmap[rx_name]
                count == IF phys_rx \in DOMAIN counters THEN counters[phys_rx] ELSE 0
                port == BASE_PORT + (count % num_server_ports)
                counters2 == [h \in DOMAIN counters \cup {phys_rx} |->
                                 IF h = phys_rx THEN count + 1 ELSE counters[h]]
                cmd == [idx |-> i, k |-> k, sender |-> event.sender, rx |-> rx_name,
                        from |-> hmap[event.sender], to |-> phys_rx,
                        port |-> port, size |-> SizeBytes(event), at |-> at]
                rest == LaunchReceivers(i, event, k + 1, hmap, counters2, at)
            IN  [rest EXCEPT !.cmds = <<cmd>> \o @]

\* mutant: the delay is not taken relative to the first event
TargetDelay_Absolute(event, first_event_time, scale) ==
    event.time * scale

\* target_delay of line 202
TargetDelay(event, first_event_time, scale) ==
    (event.time - first_event_time) * scale

\* mutant: the loop walks the list from its end
LoopIndex_Reversed(pos, n) == n + 1 - pos

\* for i, event in enumerate(events): the list element of the pos-th iteration
LoopIndex(pos, n) == pos

\* the timing block of lines 201-205: does the loop sleep before this event
MustSleep(event, first_event_time, scale, clock, start) ==
    /\ scale > 0
    /\ TargetDelay(event, first_event_time, scale) > clock - start

\* ---- load_and_merge_traces ----
\* A file is [ok, data]: ok is whether open and json.load succeed, data the
\* JSON array.  An element of data is a process map [cfg |-> group -> names]
\* (the dict keyed by the agent ids) or an event record; an original name
\* "a.s" is <<a, s>> and the namespaced name "k-a.s" is <<k, a, s>>.
MaxFiles == 2
MaxFileEvents == 2

\* '0' in data[0] and 'sender' in data[0]
HasKey0(el) == "cfg" \in DOMAIN el /\ 0 \in DOMAIN el.cfg
HasSender(el) == "sender" \in DOMAIN el

\* mutant: every file gets the prefix of the first one
Namespaced_FirstPrefix(trace_idx, name) == <<0>> \o name

\* trace_prefix + str(name)
Namespaced(trace_idx, name) == <<trace_idx>> \o name

\* the names of the process map, groups in the order of their integer key
RECURSIVE ConfigProcesses(_, _, _)
ConfigProcesses(trace_idx, cfg, keys) ==
    IF keys = {} THEN <<>>
    ELSE LET group_id == CHOOSE g \in keys : \A h \in keys : g <= h
         IN  [n \in DOMAIN cfg[group_id] |-> Namespaced(trace_idx, cfg[group_id][n])]
                 \o ConfigProcesses(trace_idx, cfg, keys \ {group_id})

NamespacedEvent(trace_idx, event) ==
    [event EXCEPT !.sender = Namespaced(trace_idx, @),
                  !.receiver = [n \in DOMAIN @ |-> Namespaced(trace_idx, @[n])]]

\* mutant: a sort that puts an event before the earlier events of its time
RECURSIVE SortByTime_Unstable(_)
SortByTime_Unstable(evs) ==
    IF evs = <<>> THEN <<>>
    ELSE LET sorted == SortByTime_Unstable(SubSeq(evs, 1, Len(evs) - 1))
             event == evs[Len(evs)]
             n == Cardinality({i \in DOMAIN sorted : sorted[i].time < event.time})
         IN  SubSeq(sorted, 1, n) \o <<event>> \o SubSeq(sorted, n + 1, Len(sorted))

\* list.sort(key = time): a stable sort
RECURSIVE SortByTime(_)
SortByTime(evs) ==
    IF evs = <<>> THEN <<>>
    ELSE LET sorted == SortByTime(SubSeq(evs, 1, Len(evs) - 1))
             event == evs[Len(evs)]
             n == Cardinality({i \in DOMAIN sorted : sorted[i].time <= event.time})
         IN  SubSeq(sorted, 1, n) \o <<event>> \o SubSeq(sorted, n + 1, Len(sorted))

\* the loop over the files from position k on, then the sort and the return;
\* raised: an exception left the function
RECURSIVE LoadFrom(_, _, _, _)
LoadFrom(files, k, procs, merged_events) ==
    IF k > Len(files)
    THEN [raised |-> FALSE, procs |-> procs, events |-> SortByTime(merged_events)]
    ELSE
      LET data == files[k].data
          trace_idx == k - 1
      IN  IF ~files[k].ok
          THEN LoadFrom(files, k + 1, procs, merged_events)
          ELSE IF Len(data) > 0 /\ HasKey0(data[1])
          THEN LoadFrom(files, k + 1,
                        procs \o ConfigProcesses(trace_idx, data[1].cfg,
                                                 DOMAIN data[1].cfg),
                        merged_events \o
                            [n \in 1..(Len(data) - 1) |->
                                NamespacedEvent(trace_idx, data[n + 1])])
          \* data[0] of an empty list: IndexError, outside the try
          ELSE IF data = <<>>
          THEN [raised |-> TRUE]
          ELSE IF HasSender(data[1])
          THEN LoadFrom(files, k + 1, procs, merged_events)
          \* process_config is still None: None.keys() raises
          ELSE [raised |-> TRUE]

load_and_merge_traces(files) == LoadFrom(files, 1, <<>>, <<>>)

\* the files the experiment is called with
TwoAgentMap == [g \in {0, 1} |-> IF g = 0 THEN <<<<0, 0>>, <<0, 1>>>> ELSE <<<<1, 0>>>>]
ProcessMaps ==
    { [g \in {0} |-> <<<<0, 0>>, <<0, 1>>, <<0, 2>>>>],
      TwoAgentMap,
      [g \in {1} |-> <<<<1, 0>>>>] }
FileEvents ==
    { [sender |-> <<0, 0>>, receiver |-> <<<<0, 1>>, <<1, 0>>>>, time |-> 0,
       size2 |-> 5],
      [sender |-> <<0, 0>>, receiver |-> <<<<0, 1>>>>, time |-> 0,
       size2 |-> 5],
      [sender |-> <<0, 0>>, receiver |-> <<<<0, 1>>>>, time |-> MaxEventTime,
       size2 |-> 5] }
\* a first element that is neither a process map nor has a sender
Unrecognized == [time |-> 0, size2 |-> 5]
FileContents ==
    {[ok |-> FALSE, data |-> <<>>], [ok |-> TRUE, data |-> <<>>],
     [ok |-> TRUE, data |-> <<Unrecognized>>]}
        \cup {[ok |-> TRUE, data |-> <<[cfg |-> c]>>] : c \in ProcessMaps}
        \cup {[ok |-> TRUE, data |-> <<[cfg |-> TwoAgentMap]>> \o evs] :
                 evs \in UNION {[1..n -> FileEvents] : n \in 1..MaxFileEvents}}
        \cup {[ok |-> TRUE, data |-> <<e>>] : e \in {ev \in FileEvents : ev.time > 0}}
\* net.hosts and the percentage argument, in percent
Placements == {<<<<"h0", "h1", "h2">>, 50>>, <<<<"h0", "h1", "h2">>, 100>>}

\* run_multi_trace_experiment is called
ExperimentStart ==
    /\ phase = "start"
    /\ trace_files \in UNION {[1..n -> FileContents] : n \in 0..MaxFiles}
    /\ \E pl \in Placements : hosts = pl[1] /\ percentage = pl[2]
    /\ time_scale \in TimeScales
    /\ all_logical_procs = <<>>
    /\ events = <<>>
    /\ host_map = <<>>
    /\ now = 0
    /\ start_wall_time = 0
    /\ rpos = 1
    /\ flows_started = 0
    /\ flows_skipped = 0
    /\ host_port_counter = <<>>
    /\ launches = <<>>
    /\ timing = <<>>

\* lines 159-196: the traces are loaded and placed and the loop is set up
LoadTraces ==
    /\ phase = "start"
    /\ LET loaded == load_and_merge_traces(trace_files)
       IN  IF loaded.raised
           THEN /\ phase' = "raised"
                /\ UNCHANGED <<all_logical_procs, events, host_map>>
           ELSE /\ phase' = "replay"
                /\ all_logical_procs' = loaded.procs
                /\ events' = loaded.events
                /\ host_map' = map_processes_to_hosts(hosts, loaded.procs, percentage)
    /\ UNCHANGED <<time_scale, now, start_wall_time, rpos, flows_started,
                   flows_skipped, host_port_counter, launches, timing,
                   trace_files, hosts, percentage>>
    /\ UNCHANGED <<synthVars, ctlVars, capVars, anaVars, pipeVars>>

\* the state at line 190, after the traces were loaded and placed
ReplayStart ==
    /\ phase = "replay"
    /\ trace_files = <<>>
    /\ all_logical_procs = all_logical_processes
    /\ hosts = net_hosts
    /\ percentage = 100
    /\ events \in UNION {[1..n -> EventShapes] : n \in 0..MaxEvents}
    /\ IsSortedByTime(events)
    /\ host_map = map_processes_to_hosts(hosts, all_logical_procs, percentage)
    /\ time_scale \in TimeScales
    /\ now = 0
    /\ start_wall_time = 0
    /\ rpos = 1
    /\ flows_started = 0
    /\ flows_skipped = 0
    /\ host_port_counter = <<>>
    /\ launches = <<>>
    /\ timing = <<>>

\* one iteration of the replay loop, lines 199-242
ReplayEvent ==
    /\ phase = "replay"
    /\ rpos <= Len(events)
    /\ LET idx == LoopIndex(rpos, Len(events))
           event == events[idx]
           first_event_time == events[1].time
           sleeps == MustSleep(event, first_event_time, time_scale, now, start_wall_time)
           deadline == start_wall_time + TargetDelay(event, first_event_time, time_scale)
       IN  \E over \in 0..MaxOversleep, busy \in 0..MaxCmdTime :
             LET wake == IF sleeps THEN deadline + over ELSE now
                 r == IF event.sender \notin DOMAIN host_map
                      THEN [cmds |-> <<>>, skipped |-> 1, counters |-> host_port_counter]
                      ELSE LaunchReceivers(idx, event, 1, host_map,
                                           host_port_counter, wake)
             IN  \* time.sleep returns at the deadline or later; handing the
                 \* commands to the hosts (phys_sender.cmd) takes time
                 /\ (~sleeps) => over = 0
                 /\ (r.cmds = <<>>) => busy = 0
                 /\ now' = wake + busy
                 /\ timing' = Append(timing,
                        [idx |-> idx, turn |-> now,
                         slept |-> IF sleeps THEN deadline - now ELSE 0,
                         launch |-> wake])
                 /\ launches' = launches \o r.cmds
                 /\ flows_started' = flows_started + Len(r.cmds)
                 /\ flows_skipped' = flows_skipped + r.skipped
                 /\ host_port_counter' = r.counters
    /\ rpos' = rpos + 1
    /\ UNCHANGED <<events, host_map, time_scale, start_wall_time,
                   trace_files, all_logical_procs, hosts, percentage, phase>>
    /\ UNCHANGED <<synthVars, ctlVars, capVars, anaVars, pipeVars>>

\* replays without timing whose events send to both hosts, to one host
\* three times in one event, to the sender's own host and to an unknown process
PortShapes ==
    [sender : {P1, P2}, receiver : {<<P2, P2, P2>>, <<P3, P2, P1>>, <<PX, P2>>},
     time : {0}, size2 : {5}]

PortStart ==
    /\ phase = "replay"
    /\ trace_files = <<>>
    /\ all_logical_procs = all_logical_processes
    /\ hosts = net_hosts
    /\ percentage = 100
    /\ events \in UNION {[1..n -> PortShapes] : n \in 0..MaxEvents}
    /\ host_map = map_processes_to_hosts(hosts, all_logical_procs, percentage)
    /\ time_scale = 0
    /\ now = 0
    /\ start_wall_time = 0
    /\ rpos = 1
    /\ flows_started = 0
    /\ flows_skipped = 0
    /\ host_port_counter = <<>>
    /\ launches = <<>>
    /\ timing = <<>>

\* the replayer has not been started
ReplayIdle ==
    /\ phase = "idle"
    /\ trace_files = <<>>
    /\ all_logical_procs = <<>>
    /\ hosts = <<>>
    /\ percentage = 0
    /\ events = <<>>
    /\ host_map = <<>>
    /\ time_scale = 0
    /\ now = 0
    /\ start_wall_time = 0
    /\ rpos = 1
    /\ flows_started = 0
    /\ flows_skipped = 0
    /\ host_port_counter = <<>>
    /\ launches = <<>>
    /\ timing = <<>>

(***************************************************************************)
(* Fabric.  The controller is run against the fabric that the loops of     *)
(* network/vl2.py describe for D_A = 4, D_I = 2, with ports numbered per   *)
(* node in the order of the links: a ToR has hosts on ports 1..20 (the     *)
(* host-facing ports of the controller) and its aggregates on 21, 22; an   *)
(* aggregate has the ToRs on ports 1, 2 and the intermediates on 3, 4.     *)
(* VL2Topo as it is written does not get that far (see VL2Topo below): the *)
(* switch links and the hosts are what the controller is told by its       *)
(* events, not the result of a run of the constructor.                     *)
(***************************************************************************)
D_A == 4
D_I == 2
HOSTS_PER_TOR == 20
num_inter == D_A \div 2
num_aggr == D_I
num_tor == (D_A * D_I) \div 4

INTER_BASE == 1000
AGGR_BASE == 2000
TOR_BASE == 3000
DPID_END == 4000

InterDpids == {INTER_BASE + i : i \in 0..(num_inter - 1)}
AggrDpids == {AGGR_BASE + a : a \in 0..(num_aggr - 1)}
TorDpids == {TOR_BASE + t : t \in 0..(num_tor - 1)}
Switches == InterDpids \cup AggrDpids \cup TorDpids

\* the links between switches: [a, ap, b, bp] joins port ap of a and port bp of b
TorAggrLinks ==
    {[a |-> TOR_BASE + (t \div 2), ap |-> HOSTS_PER_TOR + 1 + (t % 2),
      b |-> AGGR_BASE + (t % num_aggr), bp |-> 1 + (t \div num_aggr)]
        : t \in 0..(2 * num_tor - 1)}

AggrInterLinks ==
    {[a |-> AGGR_BASE + (x \div (D_A \div 2)), ap |-> ((2 * num_tor) \div num_aggr) + 1 + (x % (D_A \div 2)),
      b |-> INTER_BASE + (x % num_inter), bp |-> 1 + (x \div num_inter)]
        : x \in 0..((D_A \div 2) * num_aggr - 1)}

PhysLinks == TorAggrLinks \cup AggrInterLinks

\* VL2Topo.__init__ as it is written: the switches are added, then the
\* first host is looked up in self._hosts, which nothing assigns, and the
\* constructor raises AttributeError: with a ToR no host and no link is
\* added; without one the aggregate-intermediate loop adds its links
VL2Topo(d_a, d_i) ==
    LET n_inter == d_a \div 2
        n_aggr == d_i
        n_tor == (d_a * d_i) \div 4
    IN  [switches |-> {INTER_BASE + i : i \in 0..(n_inter - 1)}
                      \cup {AGGR_BASE + a : a \in 0..(n_aggr - 1)}
                      \cup {TOR_BASE + t : t \in 0..(n_tor - 1)},
         hosts |-> {},
         links |-> IF n_tor > 0 THEN {}
                   ELSE {<<AGGR_BASE + (x \div (d_a \div 2)), INTER_BASE + (x % n_inter)>>
                            : x \in 0..((d_a \div 2) * n_aggr - 1)},
         raised |-> n_tor > 0]

\* the stations the controller hears: MAC address -> the ToR and the
\* host-facing port (1..MAX_HOST_PORT) its frames come in on
HostAt ==
    [m \in {"mac_h0", "mac_h1", "mac_h20"} |->
        CASE m = "mac_h0" -> [tor |-> TOR_BASE, port |-> 1]
          [] m = "mac_h1" -> [tor |-> TOR_BASE, port |-> 2]
          [] m = "mac_h20" -> [tor |-> TOR_BASE + 1, port |-> 1]]

Macs == DOMAIN HostAt

\* the far end of port p of switch sw: a set with at most one [sw, port]
Peer(sw, p) ==
    {[sw |-> l.b, port |-> l.bp] : l \in {l \in PhysLinks : l.a = sw /\ l.ap = p}}
    \cup {[sw |-> l.a, port |-> l.ap] : l \in {l \in PhysLinks : l.b = sw /\ l.bp = p}}

(***************************************************************************)
(* Routing controller: network/vl2_switch_queue.py                         *)
(***************************************************************************)
BROADCAST == "ff:ff:ff:ff:ff:ff"
ETH_TYPE_IP == "IP"
ETH_TYPE_ARP == "ARP"
ETH_TYPE_LLDP == "LLDP"
MAX_HOST_PORT == 20
OFPP_CONTROLLER == -3          \* 0xfffffffd
PRIORITY_DSCP == 20
PRIORITY_DST == 10
HIGH_DSCP == 8
None == <<>>
NoDscp == -1                   \* dscp_val = None
NoPort == 0                    \* an edge without a 'port' attribute
AnyDst == "*"                  \* OFPMatch() without eth_dst

\* graph nodes: a switch is its DPID (an int), a host its MAC (a str)
Dp(dpid) == <<"dpid", dpid>>
Host(mac) == <<"mac", mac>>
IsStr(node) == node[1] = "mac"
IdOf(node) == node[2]

\* the upper end of each range belongs to the range
classify_switch_Inclusive(dpid) ==
    IF INTER_BASE <= dpid /\ dpid <= AGGR_BASE THEN "INTERMEDIATE"
    ELSE IF AGGR_BASE <= dpid /\ dpid <= TOR_BASE THEN "AGGREGATE"
    ELSE IF TOR_BASE <= dpid /\ dpid <= DPID_END THEN "TOR"
    ELSE "UNKNOWN"

classify_switch(dpid) ==
    IF INTER_BASE <= dpid /\ dpid < AGGR_BASE THEN "INTERMEDIATE"
    ELSE IF AGGR_BASE <= dpid /\ dpid < TOR_BASE THEN "AGGREGATE"
    ELSE IF TOR_BASE <= dpid /\ dpid < DPID_END THEN "TOR"
    ELSE "UNKNOWN"

\* ---- nx.DiGraph ----
EmptyGraph == [nodes |-> {}, port |-> <<>>]
HasEdge(G, u, v) == <<u, v>> \in DOMAIN G.port
AddNode(G, n) == [G EXCEPT !.nodes = @ \cup {n}]
AddEdge(G, u, v, p) ==
    [nodes |-> G.nodes \cup {u, v},
     port |-> [e \in DOMAIN G.port \cup {<<u, v>>} |->
                  IF e = <<u, v>> THEN p ELSE G.port[e]]]
RemoveEdge(G, u, v) ==
    [G EXCEPT !.port = [e \in DOMAIN G.port \ {<<u, v>>} |-> G.port[e]]]
\* the node goes, the edges to and from it stay
RemoveNode_KeepEdges(G, n) == [G EXCEPT !.nodes = @ \ {n}]
RemoveNode(G, n) ==
    [nodes |-> G.nodes \ {n},
     port |-> [e \in {e \in DOMAIN G.port : e[1] # n /\ e[2] # n} |-> G.port[e]]]
Succ(G, u) == {v \in G.nodes : HasEdge(G, u, v)}

\* breadth-first layers from the source: layers[k] holds the nodes at k-1 hops
RECURSIVE BfsLayers(_, _, _)
BfsLayers(G, layers, seen) ==
    LET next == (UNION {Succ(G, u) : u \in layers[Len(layers)]}) \ seen
    IN  IF next = {} THEN layers
        ELSE BfsLayers(G, Append(layers, next), seen \cup next)

\* the shortest paths that end in v, a node of layers[k]
RECURSIVE PathsTo(_, _, _, _)
PathsTo(G, layers, v, k) ==
    IF k = 1 THEN {<<v>>}
    ELSE UNION {{Append(p, v) : p \in PathsTo(G, layers, u, k - 1)}
                  : u \in {u \in layers[k - 1] : HasEdge(G, u, v)}}

\* only the first of the shortest paths
all_shortest_paths_First(G, src, dst) ==
    IF src \notin G.nodes \/ dst \notin G.nodes THEN {}
    ELSE LET layers == BfsLayers(G, <<{src}>>, {src})
             ks == {k \in DOMAIN layers : dst \in layers[k]}
         IN  IF ks = {} THEN {}
             ELSE LET all == PathsTo(G, layers, dst, CHOOSE k \in ks : TRUE)
                  IN  {CHOOSE p \in all : TRUE}

\* nx.all_shortest_paths by hop count; the empty set stands for
\* NetworkXNoPath and NodeNotFound
all_shortest_paths(G, src, dst) ==
    IF src \notin G.nodes \/ dst \notin G.nodes THEN {}
    ELSE LET layers == BfsLayers(G, <<{src}>>, {src})
             ks == {k \in DOMAIN layers : dst \in layers[k]}
         IN  IF ks = {} THEN {} ELSE PathsTo(G, layers, dst, CHOOSE k \in ks : TRUE)

\* the values random.choice may return; {None} when the call raises
get_ecmp_path(G, src_dpid, dst_dpid) ==
    LET paths == all_shortest_paths(G, src_dpid, dst_dpid)
    IN  IF paths = {} THEN {None} ELSE paths

\* the values random.choice may return; the empty set stands for None
get_random_intermediate_node(inter) == {Dp(i) : i \in inter}

full_path_BothEnds(path_a, path_b) ==
    SubSeq(path_a, 1, Len(path_a) - 1) \o SubSeq(path_b, 2, Len(path_b))

\* path_a[:-1] + path_b
full_path(path_a, path_b) ==
    SubSeq(path_a, 1, Len(path_a) - 1) \o path_b

\* the values get_vl2_path may return
get_vl2_path(G, inter, src_dpid, dst_dpid) ==
    LET picks == get_random_intermediate_node(inter)
    IN  IF picks = {} THEN get_ecmp_path(G, src_dpid, dst_dpid)
        ELSE UNION {{IF path_a = None \/ path_b = None THEN None
                     ELSE full_path(path_a, path_b)
                       : path_a \in get_ecmp_path(G, src_dpid, node),
                         path_b \in get_ecmp_path(G, node, dst_dpid)}
                      : node \in picks}

\* ---- messages to the switches ----
FlowMod(dpid, priority, eth_dst, dscp, queue_id, out_port) ==
    [type |-> "FlowMod", to |-> dpid, priority |-> priority, eth_dst |-> eth_dst,
     dscp |-> dscp, queue |-> queue_id, out_port |-> out_port]

PacketOut(dpid, ports, pkt) ==
    [type |-> "PacketOut", to |-> dpid, ports |-> ports, pkt |-> pkt]

\* the packet goes out on every host-facing port
send_packet_Flood(dpid, port, pkt) == PacketOut(dpid, 1..MAX_HOST_PORT, pkt)

\* send_packet
send_packet(dpid, port, pkt) == PacketOut(dpid, {port}, pkt)

\* what install_path_flow sends for path[i] -> path[i+1]
HopMessages(G, dps, path, i, msg_dpid, pkt, dst_mac, dscp, queue_id) ==
    LET current_node == path[i]
        next_node == path[i + 1]
    IN  IF IsStr(current_node) THEN <<>>
        ELSE IF IdOf(current_node) \notin dps THEN <<>>
        ELSE LET out_port == G.port[<<current_node, next_node>>]
                 priority == IF dscp # NoDscp THEN PRIORITY_DSCP ELSE PRIORITY_DST
                 mod == FlowMod(IdOf(current_node), priority, dst_mac, dscp,
                                queue_id, out_port)
             IN  IF IdOf(current_node) = msg_dpid
                 THEN <<mod, send_packet(msg_dpid, out_port, pkt)>>
                 ELSE <<mod>>

\* the messages install_path_flow sends, in the order of send_msg
install_path_flow(G, dps, path, msg_dpid, pkt, dst_mac, dscp, queue_id) ==
    Concat([i \in 1..(Len(path) - 1) |->
              HopMessages(G, dps, path, i, msg_dpid, pkt, dst_mac, dscp, queue_id)])

RECURSIVE Ascending(_)
Ascending(S) ==
    IF S = {} THEN <<>>
    ELSE LET m == CHOOSE x \in S : \A y \in S : x <= y
         IN  <<m>> \o Ascending(S \ {m})

BroadcastPorts_All(tor_dpid, dpid, in_port) == 1..MAX_HOST_PORT

\* the output ports handle_broadcast collects for one ToR
BroadcastPorts(tor_dpid, dpid, in_port) ==
    {port \in 1..MAX_HOST_PORT : ~(tor_dpid = dpid /\ port = in_port)}

\* the messages handle_broadcast sends
handle_broadcast(tors, dps, dpid, in_port, pkt) ==
    LET order == Ascending(tors)
    IN  Concat([n \in DOMAIN order |->
                  IF order[n] \notin dps \/ BroadcastPorts(order[n], dpid, in_port) = {}
                  THEN <<>>
                  ELSE <<PacketOut(order[n], BroadcastPorts(order[n], dpid, in_port), pkt)>>])

\* an edge that exists is left alone, whatever its port
LearnHost_KeepPort(G, dpid, in_port, src_mac) ==
    LET G1 == AddNode(G, Host(src_mac))
    IN  IF HasEdge(G1, Dp(dpid), Host(src_mac))
        THEN G1
        ELSE AddEdge(AddEdge(G1, Dp(dpid), Host(src_mac), in_port),
                     Host(src_mac), Dp(dpid), NoPort)

\* host learning of _packet_in_handler
LearnHost(G, dpid, in_port, src_mac) ==
    LET G1 == AddNode(G, Host(src_mac))
    IN  IF HasEdge(G1, Dp(dpid), Host(src_mac)) /\ G1.port[<<Dp(dpid), Host(src_mac)>>] = in_port
        THEN G1
        ELSE AddEdge(AddEdge(G1, Dp(dpid), Host(src_mac), in_port),
                     Host(src_mac), Dp(dpid), NoPort)

DscpOf(pkt) == IF pkt.ethertype = ETH_TYPE_IP THEN pkt.tos \div 4 ELSE NoDscp
\* every IPv4 packet gets the high queue
QueueOf_AnyIp(pkt) == IF DscpOf(pkt) # NoDscp THEN 1 ELSE 0

QueueOf(pkt) == IF DscpOf(pkt) = HIGH_DSCP THEN 1 ELSE 0

\* an LLDP frame is handled like any other frame
packet_in_outcomes_LldpHandled(G, dps, tors, inter, ev) ==
    LET dpid == ev.dpid
        in_port == ev.in_port
        pkt == ev.pkt
        switch_type == classify_switch(dpid)
        is_host == switch_type = "TOR" /\ 1 <= in_port /\ in_port <= MAX_HOST_PORT
        G1 == IF is_host THEN LearnHost(G, dpid, in_port, pkt.src) ELSE G
        flood == handle_broadcast(tors, dps, dpid, in_port, pkt)
        first == IF pkt.dst = BROADCAST THEN flood ELSE <<>>
        install(path) == install_path_flow(G1, dps, path, dpid, pkt, pkt.dst,
                                           DscpOf(pkt), QueueOf(pkt))
    IN  IF ~(switch_type = "TOR" /\ is_host)
        THEN {[graph |-> G1, path |-> None, out |-> <<>>]}
        ELSE IF HasEdge(G1, Dp(dpid), Host(pkt.dst))
        THEN LET path == <<Dp(dpid), Host(pkt.dst)>>
             IN  {[graph |-> G1, path |-> path, out |-> first \o install(path)]}
        ELSE {[graph |-> G1, path |-> path,
               out |-> first \o (IF path # None THEN install(path) ELSE flood)]
                 : path \in get_vl2_path(G1, inter, Dp(dpid), Host(pkt.dst))}

\* _packet_in_handler: the outcomes [graph, path, out] of one run on the
\* PacketIn ev = [dpid, in_port, pkt]; path is the installed path or None
packet_in_outcomes(G, dps, tors, inter, ev) ==
    LET dpid == ev.dpid
        in_port == ev.in_port
        pkt == ev.pkt
        switch_type == classify_switch(dpid)
        is_host == switch_type = "TOR" /\ 1 <= in_port /\ in_port <= MAX_HOST_PORT
        G1 == IF is_host THEN LearnHost(G, dpid, in_port, pkt.src) ELSE G
        flood == handle_broadcast(tors, dps, dpid, in_port, pkt)
        first == IF pkt.dst = BROADCAST THEN flood ELSE <<>>
        install(path) == install_path_flow(G1, dps, path, dpid, pkt, pkt.dst,
                                           DscpOf(pkt), QueueOf(pkt))
    IN  IF pkt.ethertype = ETH_TYPE_LLDP
        THEN {[graph |-> G, path |-> None, out |-> <<>>]}
        ELSE IF ~(switch_type = "TOR" /\ is_host)
        THEN {[graph |-> G1, path |-> None, out |-> <<>>]}
        ELSE IF HasEdge(G1, Dp(dpid), Host(pkt.dst))
        THEN LET path == <<Dp(dpid), Host(pkt.dst)>>
             IN  {[graph |-> G1, path |-> path, out |-> first \o install(path)]}
        ELSE {[graph |-> G1, path |-> path,
               out |-> first \o (IF path # None THEN install(path) ELSE flood)]
                 : path \in get_vl2_path(G1, inter, Dp(dpid), Host(pkt.dst))}

\* ---- the switches ----
\* the table-miss entry of switch_features_handler
TableMiss ==
    [priority |-> 0, eth_dst |-> AnyDst, dscp |-> NoDscp, queue |-> 0,
     out_port |-> OFPP_CONTROLLER]

RuleOf(mod) ==
    [priority |-> mod.priority, eth_dst |-> mod.eth_dst, dscp |-> mod.dscp,
     queue |-> mod.queue, out_port |-> mod.out_port]

\* OFPFC_ADD: an entry with the same match and priority is replaced
ApplyFlowMod(table, mod) ==
    {r \in table : ~(r.priority = mod.priority /\ r.eth_dst = mod.eth_dst
                      /\ r.dscp = mod.dscp)} \cup {RuleOf(mod)}

Matches(rule, pkt) ==
    /\ rule.eth_dst = AnyDst \/ rule.eth_dst = pkt.dst
    /\ rule.dscp = NoDscp \/ (pkt.ethertype = ETH_TYPE_IP /\ DscpOf(pkt) = rule.dscp)

MatchingRules(table, pkt) == {r \in table : Matches(r, pkt)}

BestRule(table, pkt) ==
    CHOOSE r \in MatchingRules(table, pkt) :
        \A q \in MatchingRules(table, pkt) : q.priority <= r.priority

\* the frames a switch puts on its links when it outputs pkt on the ports;
\* a host-facing port hands the frame to the host
Emit(sw, ports, pkt) ==
    {[sw |-> pr.sw, port |-> pr.port, pkt |-> pkt]
        : pr \in UNION {Peer(sw, p) : p \in ports}}

SendAll(chan, out) ==
    [sw \in DOMAIN chan |-> chan[sw] \o SelectSeq(out, LAMBDA m : m.to = sw)]

\* the frames a PacketIn can carry from host mac: ARP or IPv4, to another
\* host or to the broadcast address.  tos 0 is what every command of the
\* repository sends (ping without -Q, iperf3 without -S); 16 and 32 are
\* DSCP 4 and DSCP 8, which the handler looks for (lines 300-310)
TosValues == {0, 16, 32}
HostFrames(mac) ==
    [src : {mac}, dst : (Macs \ {mac}) \cup {BROADCAST}, ethertype : {ETH_TYPE_ARP}, tos : {0}]
    \cup [src : {mac}, dst : (Macs \ {mac}) \cup {BROADCAST}, ethertype : {ETH_TYPE_IP},
          tos : TosValues]

\* the ping of host_hello: one IPv4 frame to the broadcast address
Hello(mac) == [src |-> mac, dst |-> BROADCAST, ethertype |-> ETH_TYPE_IP, tos |-> 0]

\* the flows <<sender, receiver>> the replay starts with iperf3 -c: one
\* inside a ToR and one between the ToRs
ReplayFlows == {<<"mac_h1", "mac_h0">>, <<"mac_h20", "mac_h0">>}

\* what the sender of a flow puts on its port: the ARP request for the
\* receiver and the TCP segments, IPv4 with tos 0
SenderFrames(fl) ==
    {[src |-> fl[1], dst |-> BROADCAST, ethertype |-> ETH_TYPE_ARP, tos |-> 0],
     [src |-> fl[1], dst |-> fl[2], ethertype |-> ETH_TYPE_IP, tos |-> 0]}

\* what the receiver answers: the ARP reply and the TCP segments of the
\* other direction, IPv4 with tos 0
ReceiverFrames(fl) ==
    {[src |-> fl[2], dst |-> fl[1], ethertype |-> ETH_TYPE_ARP, tos |-> 0],
     [src |-> fl[2], dst |-> fl[1], ethertype |-> ETH_TYPE_IP, tos |-> 0]}

\* the frames of a flow
FlowFrames(fl) == SenderFrames(fl) \cup ReceiverFrames(fl)

\* the frames of the traffic that is started in the background: the ping
\* of every host and the frames of the flows; MaxPackets of them are
\* sent, at any time
MaxPackets == 2
TrafficFrames(mac) ==
    {Hello(mac)} \cup {f \in UNION {FlowFrames(fl) : fl \in ReplayFlows} : f.src = mac}

LldpFrame == [src |-> "lldp", dst |-> "01:80:c2:00:00:0e", ethertype |-> ETH_TYPE_LLDP, tos |-> 0]

\* a host sends a frame into its ToR port: host_hello and the replay start
\* their commands in the background and do not wait for the fabric, so
\* frames of several hosts are in the fabric at once
HostSend ==
    /\ pkts_left > 0
    /\ \E mac \in Macs : \E pkt \in TrafficFrames(mac) :
          wire' = wire \cup {[sw |-> HostAt[mac].tor, port |-> HostAt[mac].port, pkt |-> pkt]}
    /\ pkts_left' = pkts_left - 1
    /\ UNCHANGED <<network_graph, datapaths, tor_switches, aggr_switches, inter_switches,
                   flow_table, ctl_chan, pktin_queue, last_in, last_out, last_path,
                   installed, query, result>>
    /\ UNCHANGED <<synthVars, replayVars, capVars, anaVars, pipeVars>>

\* topology discovery: an LLDP probe arrives on a switch port and is
\* handed to the controller
LldpProbe ==
    /\ pkts_left > 0
    /\ \E l \in PhysLinks :
          /\ l.a \in datapaths
          /\ pktin_queue' = Append(pktin_queue, [dpid |-> l.a, in_port |-> l.ap, pkt |-> LldpFrame])
    /\ pkts_left' = pkts_left - 1
    /\ UNCHANGED <<network_graph, datapaths, tor_switches, aggr_switches, inter_switches,
                   flow_table, ctl_chan, wire, last_in, last_out, last_path,
                   installed, query, result>>
    /\ UNCHANGED <<synthVars, replayVars, capVars, anaVars, pipeVars>>

\* a switch looks a frame up in its table
SwitchForward ==
    /\ \E f \in wire :
          IF MatchingRules(flow_table[f.sw], f.pkt) = {}
          THEN /\ wire' = wire \ {f}
               /\ UNCHANGED pktin_queue
          ELSE LET rule == BestRule(flow_table[f.sw], f.pkt)
               IN  IF rule.out_port = OFPP_CONTROLLER
                   THEN /\ wire' = wire \ {f}
                        /\ pktin_queue' =
                              IF f.sw \in datapaths
                              THEN Append(pktin_queue,
                                          [dpid |-> f.sw, in_port |-> f.port, pkt |-> f.pkt])
                              ELSE pktin_queue
                   ELSE /\ wire' = (wire \ {f}) \cup Emit(f.sw, {rule.out_port}, f.pkt)
                        /\ UNCHANGED pktin_queue
    /\ UNCHANGED <<network_graph, datapaths, tor_switches, aggr_switches, inter_switches,
                   flow_table, ctl_chan, last_in, last_out, last_path, installed,
                   pkts_left, query, result>>
    /\ UNCHANGED <<synthVars, replayVars, capVars, anaVars, pipeVars>>

\* a switch takes the next message of its control channel
SwitchApply ==
    /\ \E sw \in DOMAIN ctl_chan :
          /\ ctl_chan[sw] # <<>>
          /\ LET m == Head(ctl_chan[sw])
             IN  IF m.type = "FlowMod"
                 THEN /\ flow_table' = [flow_table EXCEPT ![sw] = ApplyFlowMod(@, m)]
                      /\ UNCHANGED wire
                 ELSE /\ wire' = wire \cup Emit(sw, m.ports, m.pkt)
                      /\ UNCHANGED flow_table
          /\ ctl_chan' = [ctl_chan EXCEPT ![sw] = Tail(@)]
    /\ UNCHANGED <<network_graph, datapaths, tor_switches, aggr_switches, inter_switches,
                   pktin_queue, last_in, last_out, last_path, installed,
                   pkts_left, query, result>>
    /\ UNCHANGED <<synthVars, replayVars, capVars, anaVars, pipeVars>>

\* _packet_in_handler on the next PacketIn
PacketIn ==
    /\ pktin_queue # <<>>
    /\ LET ev == Head(pktin_queue)
       IN  \E o \in packet_in_outcomes(network_graph, datapaths, tor_switches,
                                       inter_switches, ev) :
              /\ network_graph' = o.graph
              /\ ctl_chan' = SendAll(ctl_chan, o.out)
              /\ last_in' = ev
              /\ last_out' = o.out
              /\ last_path' = o.path
              /\ installed' =
                    IF o.path = None THEN installed
                    ELSE installed \cup {[eth_dst |-> ev.pkt.dst, dscp |-> DscpOf(ev.pkt),
                                          path |-> o.path]}
    /\ pktin_queue' = Tail(pktin_queue)
    /\ UNCHANGED <<datapaths, tor_switches, aggr_switches, inter_switches,
                   flow_table, wire, pkts_left, query, result>>
    /\ UNCHANGED <<synthVars, replayVars, capVars, anaVars, pipeVars>>

\* ---- states of the controller after topology discovery ----
\* the graph after switch_features_handler for the switches of up, link_add_handler
\* for both directions of the links of links, and host learning for learned
RECURSIVE AddLinks(_, _)
AddLinks(G, links) ==
    IF links = {} THEN G
    ELSE LET l == CHOOSE l \in links : TRUE
         IN  AddLinks(AddEdge(AddEdge(G, Dp(l.a), Dp(l.b), l.ap), Dp(l.b), Dp(l.a), l.bp),
                      links \ {l})

RECURSIVE LearnAll(_, _)
LearnAll(G, macs) ==
    IF macs = {} THEN G
    ELSE LET m == CHOOSE m \in macs : TRUE
         IN  LearnAll(LearnHost(G, HostAt[m].tor, HostAt[m].port, m), macs \ {m})

RECURSIVE RemoveAll(_, _)
RemoveAll(G, dpids) ==
    IF dpids = {} THEN G
    ELSE LET d == CHOOSE d \in dpids : TRUE
         IN  RemoveAll(RemoveNode(G, Dp(d)), dpids \ {d})

\* connected: the switches that connected; left: those of them that left again
Discovered(connected, left, links, learned) ==
    LET G0 == [nodes |-> {Dp(d) : d \in connected}, port |-> <<>>]
        G1 == AddLinks(G0, links)
        G2 == LearnAll(G1, {m \in learned : HostAt[m].tor \in connected})
    IN  RemoveAll(G2, left)

\* the controller with the graph G, and the switches: those of connected
\* have connected and those of left have left again; no PacketIn was
\* handled yet
ControllerAt(G, connected, left) ==
    /\ network_graph = G
    /\ datapaths = connected \ left
    /\ tor_switches = {d \in connected : classify_switch(d) = "TOR"}
    /\ aggr_switches = {d \in connected : classify_switch(d) = "AGGREGATE"}
    /\ inter_switches = {d \in connected : classify_switch(d) = "INTERMEDIATE"}
    /\ flow_table = [sw \in Switches |-> IF sw \in connected THEN {TableMiss} ELSE {}]
    /\ ctl_chan = [sw \in Switches |-> <<>>]
    /\ last_in = None
    /\ last_out = <<>>
    /\ last_path = None
    /\ installed = {}
    /\ query = None
    /\ result = None

ControllerAfter(connected, left, links, learned) ==
    /\ ControllerAt(Discovered(connected, left, links, learned), connected, left)
    /\ pktin_queue = <<>>
    /\ wire = {}

\* link_add_handler for the links of the switches of back, reported again
\* after the switches left: add_edge puts them back into the graph, and
\* they stay without a datapath
Reported(G, back) == AddLinks(G, {l \in PhysLinks : l.a \in back \/ l.b \in back})

\* the controller has not been started
CtlIdle ==
    /\ network_graph = EmptyGraph
    /\ datapaths = {}
    /\ tor_switches = {}
    /\ aggr_switches = {}
    /\ inter_switches = {}
    /\ flow_table = <<>>
    /\ ctl_chan = <<>>
    /\ pktin_queue = <<>>
    /\ wire = {}
    /\ last_in = None
    /\ last_out = <<>>
    /\ last_path = None
    /\ installed = {}
    /\ pkts_left = 0
    /\ query = None
    /\ result = None

\* traffic starts when the topology has been discovered; an intermediate
\* may have left since, and no host has been heard yet or the receiver
\* of the flows has: the other hosts are heard with their first frame
MayLeave == {TOR_BASE + 1, INTER_BASE}
CtlStart ==
    /\ \E left \in SUBSET (MayLeave \cap InterDpids) :
       \E learned \in {{}, {"mac_h0"}} :
          ControllerAfter(Switches, left, PhysLinks, learned)
    /\ pkts_left = MaxPackets

\* ---- one frame on the discovered fabric ----
\* a host has sent one frame into a fabric at rest: a ToR or an
\* intermediate may have left, the links of an intermediate that left may
\* have been reported again, and some hosts have been heard already
FrameStart ==
    /\ \E left \in SUBSET MayLeave : \E back \in {{}, left \cap InterDpids} :
       \E learned \in SUBSET Macs :
          ControllerAt(Reported(Discovered(Switches, left, PhysLinks, learned), back),
                       Switches, left)
    /\ pktin_queue = <<>>
    /\ \E mac \in Macs : \E pkt \in HostFrames(mac) :
          wire = {[sw |-> HostAt[mac].tor, port |-> HostAt[mac].port, pkt |-> pkt]}
    /\ pkts_left = 0

\* ---- direct calls of the path functions ----
MaxDownLinks == 2
PathStart ==
    /\ \E connected \in {S \in SUBSET Switches : (TorDpids \cup AggrDpids) \subseteq S} :
       \E left \in SUBSET (connected \cap InterDpids) :
       \E down \in {S \in SUBSET PhysLinks : Cardinality(S) <= MaxDownLinks} :
       \E learned \in {Macs, Macs \ {"mac_h20"}} :
          ControllerAfter(connected, left,
                          {l \in PhysLinks \ down : l.a \in connected /\ l.b \in connected},
                          learned)
    /\ pkts_left = 0

QuerySources == {Dp(d) : d \in TorDpids \cup {INTER_BASE}}
QueryTargets == {Dp(d) : d \in Switches} \cup {Host(m) : m \in Macs}

CallEcmp ==
    /\ query = None
    /\ \E s \in QuerySources, d \in QueryTargets :
          /\ query' = [fn |-> "get_ecmp_path", src |-> s, dst |-> d,
                        paths |-> all_shortest_paths(network_graph, s, d)]
          /\ result' \in get_ecmp_path(network_graph, s, d)
    /\ UNCHANGED <<network_graph, datapaths, tor_switches, aggr_switches, inter_switches,
                   flow_table, ctl_chan, pktin_queue, wire, last_in, last_out, last_path,
                   installed, pkts_left>>
    /\ UNCHANGED <<synthVars, replayVars, capVars, anaVars, pipeVars>>

CallVl2 ==
    /\ query = None
    /\ \E s \in QuerySources, d \in QueryTargets :
          /\ query' = [fn |-> "get_vl2_path", src |-> s, dst |-> d]
          /\ result' \in get_vl2_path(network_graph, inter_switches, s, d)
    /\ UNCHANGED <<network_graph, datapaths, tor_switches, aggr_switches, inter_switches,
                   flow_table, ctl_chan, pktin_queue, wire, last_in, last_out, last_path,
                   installed, pkts_left>>
    /\ UNCHANGED <<synthVars, replayVars, capVars, anaVars, pipeVars>>

(***************************************************************************)
(* Capacity check (trace_generation/server_management.py)                  *)
(***************************************************************************)
MAX_GPU_PER_HOST == 10
\* the table of the callers: create_server_dict(num_tor, num_host)
NUM_TOR == 2
NUM_HOST == 1
MaxNodes == 2
MaxCalls == 3
GpuCosts == {3, 7}

create_server_dict(ntor, nhost) ==
    [i \in 0..(ntor - 1) |-> [j \in 0..(nhost - 1) |-> MAX_GPU_PER_HOST]]

\* the (node, gpu_count) pairs in the order of the two loops of lines 17-18
NodesOf(ags) == Concat(ags)

\* hosts with enough available GPUs, lines 20-25
eligible_hosts(servers_copy, gpu_count) ==
    {th \in {<<t, h>> : t \in DOMAIN servers_copy, h \in 0..(NUM_HOST - 1)} :
        /\ th[2] \in DOMAIN servers_copy[th[1]]
        /\ servers_copy[th[1]][th[2]] >= gpu_count}

\* the loop of lines 17-37 from the k-th pair on: every outcome the random
\* choice of line 32 allows; ok is whether the loop ran to its end
RECURSIVE AllocateFrom(_, _, _, _)
AllocateFrom(nodes, k, servers_copy, node_map) ==
    IF k > Len(nodes)
    THEN {[ok |-> TRUE, copy |-> servers_copy, node_map |-> node_map]}
    ELSE
      LET node == nodes[k][1]
          gpu_count == nodes[k][2]
          eligible == eligible_hosts(servers_copy, gpu_count)
      IN  IF eligible = {}
          THEN {[ok |-> FALSE, copy |-> servers_copy, node_map |-> node_map]}
          ELSE UNION {
                 AllocateFrom(nodes, k + 1,
                     [servers_copy EXCEPT ![th[1]][th[2]] = @ - gpu_count],
                     [n \in DOMAIN node_map \cup {node} |->
                         IF n = node THEN th ELSE node_map[n]]) :
                 th \in eligible}

\* mutant: the failure path hands back the table it worked on
FailureTable_WorkingCopy(srv, servers_copy) == servers_copy

\* the table returned by line 29
FailureTable(srv, servers_copy) == srv

\* start_process: the set of possible (servers, node_map) results
start_process(ags, srv) ==
    {IF r.ok THEN [servers |-> r.copy, node_map |-> r.node_map]
             ELSE [servers |-> FailureTable(srv, r.copy), node_map |-> None] :
        r \in AllocateFrom(NodesOf(ags), 1, srv, <<>>)}

\* end_process: the GPUs of every node go back to its host
RECURSIVE ReleaseFrom(_, _, _, _)
ReleaseFrom(nodes, k, srv, node_map) ==
    IF k > Len(nodes) THEN srv
    ELSE LET th == node_map[nodes[k][1]]
         IN  ReleaseFrom(nodes, k + 1,
                         [srv EXCEPT ![th[1]][th[2]] = @ + nodes[k][2]], node_map)

end_process(ags, srv, node_map) == ReleaseFrom(NodesOf(ags), 1, srv, node_map)

\* the process descriptors: one or two agents with up to MaxNodes sub-nodes
NodeLists(a) ==
    UNION {{[k \in 1..n |-> <<<<a, k - 1>>, c[k]>>] : c \in [1..n -> GpuCosts]} :
              n \in 1..MaxNodes}
AgentDicts ==
    {<<g>> : g \in NodeLists(0)}
        \cup {<<g, h>> : g \in NodeLists(0), h \in NodeLists(1)}

CapStart ==
    /\ agents \in AgentDicts
    /\ servers = create_server_dict(NUM_TOR, NUM_HOST)
    /\ node_maps = <<>>
    /\ calls = 0
    /\ last_start = None

\* servers, node_map = start_process(agents, servers)
StartProcess ==
    /\ calls < MaxCalls
    /\ \E r \in start_process(agents, servers) :
          /\ servers' = r.servers
          /\ node_maps' = IF r.node_map = None THEN node_maps
                          ELSE Append(node_maps, r.node_map)
          /\ last_start' = [before |-> servers, servers |-> r.servers,
                            node_map |-> r.node_map]
    /\ calls' = calls + 1
    /\ UNCHANGED agents
    /\ UNCHANGED <<synthVars, replayVars, ctlVars, anaVars, pipeVars>>

\* servers = end_process(agents, servers, node_map)
EndProcess ==
    /\ \E n \in DOMAIN node_maps :
          /\ servers' = end_process(agents, servers, node_maps[n])
          /\ node_maps' = SubSeq(node_maps, 1, n - 1)
                              \o SubSeq(node_maps, n + 1, Len(node_maps))
    /\ UNCHANGED <<agents, calls, last_start>>
    /\ UNCHANGED <<synthVars, replayVars, ctlVars, anaVars, pipeVars>>

\* the capacity check has not been started
CapIdle ==
    /\ agents = <<>>
    /\ servers = <<>>
    /\ node_maps = <<>>
    /\ calls = 0
    /\ last_start = None

(***************************************************************************)
(* Metrics analyzer (get_flow_type, analyze_iperf_results of multi_llm.py) *)
(* A file name is a sequence of one-character strings.                     *)
(***************************************************************************)
MaxLogs == 6

DigitChars == <<"0", "1", "2", "3", "4", "5", "6", "7", "8", "9">>
\* str(n) of a natural number
RECURSIVE Digits(_)
Digits(n) == IF n < 10 THEN <<DigitChars[n + 1]>>
             ELSE Digits(n \div 10) \o <<DigitChars[(n % 10) + 1]>>

TO_SEP == <<"_", "t", "o", "_">>
JSON_EXT == <<".", "j", "s", "o", "n">>

\* the namespaced id "k-a.s" of <<k, a, s>>
NameChars(name) ==
    Digits(name[1]) \o <<"-">> \o Digits(name[2]) \o <<".">> \o Digits(name[3])

\* the basename of line 233: f'{i}_{sender_name}_to_{rx_name}.json'
LogName(i, sender_name, rx_name) ==
    Digits(i) \o <<"_">> \o NameChars(sender_name) \o TO_SEP
        \o NameChars(rx_name) \o JSON_EXT

\* pat occurs in str at position i
OccursAt(str, i, pat) ==
    /\ i + Len(pat) - 1 <= Len(str)
    /\ \A j \in 1..Len(pat) : str[i + j - 1] = pat[j]
\* the first position >= from where pat occurs in str, 0 if there is none
Find(str, pat, from) ==
    LET hits == {i \in from..Len(str) : OccursAt(str, i, pat)}
    IN  IF hits = {} THEN 0 ELSE CHOOSE i \in hits : \A j \in hits : i <= j
\* the last position where pat occurs in str, 0 if there is none
FindLast(str, pat) ==
    LET hits == {i \in 1..Len(str) : OccursAt(str, i, pat)}
    IN  IF hits = {} THEN 0 ELSE CHOOSE i \in hits : \A j \in hits : i >= j

\* str.split(pat)
RECURSIVE Split(_, _)
Split(str, pat) ==
    LET i == Find(str, pat, 1)
    IN  IF i = 0 THEN <<str>>
        ELSE <<SubSeq(str, 1, i - 1)>>
                 \o Split(SubSeq(str, i + Len(pat), Len(str)), pat)

\* str.replace(pat, '')
Remove(str, pat) == Concat(Split(str, pat))

\* str.split(pat, 1)
SplitOnce(str, pat) ==
    LET i == Find(str, pat, 1)
    IN  IF i = 0 THEN <<str>>
        ELSE <<SubSeq(str, 1, i - 1), SubSeq(str, i + Len(pat), Len(str))>>

\* x.rsplit('.', 1)[0] if '.' in x else x
GroupKey(x) ==
    LET i == FindLast(x, <<".">>)
    IN  IF i = 0 THEN x ELSE SubSeq(x, 1, i - 1)

\* mutant: the event index is left in front of the sender
SenderOfLog_WithIndex(part) == part

\* lines 283-284: the sender is what follows the first '_'
SenderOfLog(part) ==
    LET sender_parts == SplitOnce(part, <<"_">>)
    IN  IF Len(sender_parts) > 1 THEN sender_parts[2] ELSE part

get_flow_type(filename) ==
    LET basename == Remove(filename, JSON_EXT)
        parts == Split(basename, TO_SEP)
    IN  IF Len(parts) # 2 THEN "unknown"
        ELSE IF GroupKey(SenderOfLog(parts[1])) = GroupKey(parts[2])
             THEN "distributed_inference"
             ELSE "agent_agent"

\* What a log file holds.  blank: nothing but white space; json: json.loads
\* succeeds; data: the parsed object.  An error message is given by the
\* words its lower-case form contains.
ErrorMessages == [busy : BOOLEAN, refused : BOOLEAN, connect : BOOLEAN]
SuccessContent ==
    [blank |-> FALSE, json |-> TRUE,
     data |-> [end |-> [sum_sent |-> [seconds |-> 2, bytes |-> 5]]]]
FailureContents ==
    {[blank |-> TRUE], [blank |-> FALSE, json |-> FALSE]}
        \cup {[blank |-> FALSE, json |-> TRUE, data |-> [error |-> m]] :
                 m \in ErrorMessages}
        \cup {[blank |-> FALSE, json |-> TRUE, data |-> [start |-> 0]],
              [blank |-> FALSE, json |-> TRUE, data |-> [end |-> [streams |-> 0]]]}
\* the names the replay gives its logs
LogSenders == {<<0, 0, 0>>}
LogReceivers == {<<0, 0, 1>>, <<0, 1, 0>>, <<1, 0, 0>>}
\* the positions of the events in the merged list
LogIndexes == {0, 12}
LogFiles ==
    [idx : LogIndexes, sender : LogSenders, rx : LogReceivers,
     content : {SuccessContent}]
        \cup [idx : {0}, sender : LogSenders, rx : {<<0, 0, 1>>},
              content : FailureContents]

AnaStart ==
    /\ analyzed = 0
    /\ fcts = <<>>
    /\ flow_sizes = <<>>
    /\ total_bytes = 0
    /\ dist_inf_fcts = <<>>
    /\ dist_inf_bytes = 0
    /\ agent_fcts = <<>>
    /\ agent_bytes = 0
    /\ empty_files = 0
    /\ server_busy = 0
    /\ connection_refused = 0
    /\ incomplete_json = 0
    /\ json_parse_errors = 0
    /\ iperf_errors = <<>>
    /\ sample_contents = 0
    /\ last_log = None
    /\ report = None

\* sample_contents.append under len(sample_contents) < 3
AddSample(n) == IF n < 3 THEN n + 1 ELSE n

\* the branch a log file takes in the loop body, lines 351-381
LogBranch(content) ==
    IF content.blank THEN "empty"
    ELSE IF ~content.json THEN "parse_error"
    ELSE IF "error" \in DOMAIN content.data
    THEN IF content.data.error.busy THEN "busy"
         ELSE IF content.data.error.refused \/ content.data.error.connect
         THEN "refused"
         ELSE "other"
    ELSE IF "end" \notin DOMAIN content.data
            \/ "sum_sent" \notin DOMAIN content.data.end
    THEN "incomplete"
    ELSE "success"

\* one iteration of the loop over log_files, lines 347-385
AnalyzeLog ==
    /\ report = None
    /\ analyzed < MaxLogs
    /\ \E log \in LogFiles :
         LET branch == LogBranch(log.content)
             log_f == LogName(log.idx, log.sender, log.rx)
             flow_type == get_flow_type(log_f)
             duration == log.content.data.end.sum_sent.seconds
             b_sent == log.content.data.end.sum_sent.bytes
             ok == branch = "success"
             dist == ok /\ flow_type = "distributed_inference"
             agent == ok /\ flow_type = "agent_agent"
         IN  /\ empty_files' = IF branch = "empty" THEN empty_files + 1 ELSE empty_files
             /\ json_parse_errors' = IF branch = "parse_error"
                                     THEN json_parse_errors + 1 ELSE json_parse_errors
             /\ server_busy' = IF branch = "busy" THEN server_busy + 1 ELSE server_busy
             /\ connection_refused' = IF branch = "refused"
                                      THEN connection_refused + 1
                                      ELSE connection_refused
             /\ iperf_errors' = IF branch = "other" /\ Len(iperf_errors) < 5
                                THEN Append(iperf_errors, log.content.data.error)
                                ELSE iperf_errors
             /\ incomplete_json' = IF branch = "incomplete"
                                   THEN incomplete_json + 1 ELSE incomplete_json
             /\ sample_contents' = IF branch \in {"parse_error", "incomplete"}
                                   THEN AddSample(sample_contents)
                                   ELSE sample_contents
             /\ fcts' = IF ok THEN Append(fcts, duration) ELSE fcts
             /\ flow_sizes' = IF ok THEN Append(flow_sizes, b_sent) ELSE flow_sizes
             /\ total_bytes' = IF ok THEN total_bytes + b_sent ELSE total_bytes
             /\ dist_inf_fcts' = IF dist THEN Append(dist_inf_fcts, duration)
                                 ELSE dist_inf_fcts
             /\ dist_inf_bytes' = IF dist THEN dist_inf_bytes + b_sent
                                  ELSE dist_inf_bytes
             /\ agent_fcts' = IF agent THEN Append(agent_fcts, duration)
                              ELSE agent_fcts
             /\ agent_bytes' = IF agent THEN agent_bytes + b_sent ELSE agent_bytes
             /\ last_log' = [idx |-> log.idx, sender |-> log.sender, rx |-> log.rx,
                             branch |-> branch,
                             flow_type |-> IF ok THEN flow_type ELSE "none"]
    /\ analyzed' = analyzed + 1
    /\ UNCHANGED report
    /\ UNCHANGED <<synthVars, replayVars, ctlVars, capVars, pipeVars>>

\* the end of the loop and the error breakdown, lines 387-399
Report ==
    /\ report = None
    /\ report' = [files |-> analyzed,
                  successful |-> Len(fcts),
                  empty |-> empty_files,
                  parse_errors |-> json_parse_errors,
                  incomplete |-> incomplete_json,
                  busy |-> server_busy,
                  refused |-> connection_refused,
                  other |-> Len(iperf_errors),
                  total_errors |-> empty_files + server_busy + connection_refused
                                      + incomplete_json + json_parse_errors
                                      + Len(iperf_errors)]
    /\ UNCHANGED <<analyzed, fcts, flow_sizes, total_bytes, dist_inf_fcts,
                   dist_inf_bytes, agent_fcts, agent_bytes, empty_files, server_busy,
                   connection_refused, incomplete_json, json_parse_errors,
                   iperf_errors, sample_contents, last_log>>
    /\ UNCHANGED <<synthVars, replayVars, ctlVars, capVars, pipeVars>>

\* the analyzer has not been started
AnaIdle == AnaStart

\* ---- the topology handlers ----
\* the switches that connect and leave: one of each role and one whose
\* DPID is in no range; the links between them, one event per direction
TopoDpids == {INTER_BASE, AGGR_BASE, TOR_BASE, DPID_END}
TopoLinks == {l \in PhysLinks : l.a \in TopoDpids /\ l.b \in TopoDpids}
LinkEvents ==
    {[src |-> l.a, port_no |-> l.ap, dst |-> l.b] : l \in TopoLinks}
    \cup {[src |-> l.b, port_no |-> l.bp, dst |-> l.a] : l \in TopoLinks}

\* the controller after some switches have connected and a host may have
\* been heard; the links between them have been reported, or all links
\* (a report can name a switch that has not connected)
TopoStart ==
    /\ \E connected \in SUBSET TopoDpids : \E learned \in SUBSET {"mac_h0"} :
       \E links \in {TopoLinks, {l \in TopoLinks : l.a \in connected /\ l.b \in connected}} :
          /\ network_graph = Discovered(connected, {}, links, learned)
          /\ datapaths = connected
          /\ tor_switches = {d \in connected : classify_switch(d) = "TOR"}
          /\ aggr_switches = {d \in connected : classify_switch(d) = "AGGREGATE"}
          /\ inter_switches = {d \in connected : classify_switch(d) = "INTERMEDIATE"}
          /\ flow_table = [sw \in TopoDpids |-> IF sw \in connected THEN {TableMiss} ELSE {}]
    /\ ctl_chan = [sw \in TopoDpids |-> <<>>]
    /\ pktin_queue = <<>>
    /\ wire = {}
    /\ last_in = None
    /\ last_out = <<>>
    /\ last_path = None
    /\ installed = {}
    /\ pkts_left = 0
    /\ query = None
    /\ result = None

\* switch_features_handler: a switch that is not connected connects
SwitchFeatures ==
    /\ \E dpid \in TopoDpids \ datapaths :
          LET switch_type == classify_switch(dpid)
              out == <<FlowMod(dpid, TableMiss.priority, TableMiss.eth_dst, TableMiss.dscp,
                               TableMiss.queue, TableMiss.out_port)>>
          IN  /\ ctl_chan[dpid] = <<>>
              /\ network_graph' = AddNode(network_graph, Dp(dpid))
              /\ datapaths' = datapaths \cup {dpid}
              /\ inter_switches' = IF switch_type = "INTERMEDIATE"
                                   THEN inter_switches \cup {dpid} ELSE inter_switches
              /\ aggr_switches' = IF switch_type = "AGGREGATE"
                                  THEN aggr_switches \cup {dpid} ELSE aggr_switches
              /\ tor_switches' = IF switch_type = "TOR"
                                 THEN tor_switches \cup {dpid} ELSE tor_switches
              /\ ctl_chan' = SendAll(ctl_chan, out)
              /\ last_in' = [event |-> "SwitchFeatures", dpid |-> dpid]
              /\ last_out' = out
    /\ UNCHANGED <<flow_table, pktin_queue, wire, last_path, installed, pkts_left, query, result>>
    /\ UNCHANGED <<synthVars, replayVars, capVars, anaVars, pipeVars>>

\* link_add_handler: add_edge for the link of the event, whether its
\* switches are connected or not (add_edge adds the nodes it misses)
LinkAdd ==
    /\ \E l \in LinkEvents :
          /\ network_graph' = AddEdge(network_graph, Dp(l.src), Dp(l.dst), l.port_no)
          /\ last_in' = [event |-> "LinkAdd", link |-> l]
    /\ last_out' = <<>>
    /\ UNCHANGED <<datapaths, tor_switches, aggr_switches, inter_switches, flow_table,
                   ctl_chan, pktin_queue, wire, last_path, installed, pkts_left, query, result>>
    /\ UNCHANGED <<synthVars, replayVars, capVars, anaVars, pipeVars>>

\* link_delete_handler: remove_edge, NetworkXError swallowed
LinkDelete ==
    /\ \E l \in LinkEvents :
          /\ network_graph' = IF HasEdge(network_graph, Dp(l.src), Dp(l.dst))
                              THEN RemoveEdge(network_graph, Dp(l.src), Dp(l.dst))
                              ELSE network_graph
          /\ last_in' = [event |-> "LinkDelete", link |-> l]
    /\ last_out' = <<>>
    /\ UNCHANGED <<datapaths, tor_switches, aggr_switches, inter_switches, flow_table,
                   ctl_chan, pktin_queue, wire, last_path, installed, pkts_left, query, result>>
    /\ UNCHANGED <<synthVars, replayVars, capVars, anaVars, pipeVars>>

\* switch_leave_handler: the connection of the switch is gone, and with
\* it what was in flight on it
SwitchLeave ==
    /\ \E dpid \in TopoDpids :
          /\ datapaths' = datapaths \ {dpid}
          /\ network_graph' = IF Dp(dpid) \in network_graph.nodes
                              THEN RemoveNode(network_graph, Dp(dpid))
                              ELSE network_graph
          /\ ctl_chan' = [ctl_chan EXCEPT ![dpid] = <<>>]
          /\ last_in' = [event |-> "SwitchLeave", dpid |-> dpid]
    /\ last_out' = <<>>
    /\ UNCHANGED <<tor_switches, aggr_switches, inter_switches, flow_table,
                   pktin_queue, wire, last_path, installed, pkts_left, query, result>>
    /\ UNCHANGED <<synthVars, replayVars, capVars, anaVars, pipeVars>>

\* ---- one PacketIn on a controller that has heard hosts before ----
\* the switches, ports and frames of the PacketIn
LearnSwitches == {TOR_BASE, TOR_BASE + 1, AGGR_BASE, INTER_BASE, DPID_END}
LearnPorts == {1, 3, MAX_HOST_PORT, MAX_HOST_PORT + 1}
LearnFrames ==
    [src : {"mac_h0"}, dst : {"mac_h20"}, ethertype : {ETH_TYPE_ARP, ETH_TYPE_IP}, tos : {0}]
    \cup [src : {"mac_h1"}, dst : {"mac_h20"}, ethertype : {ETH_TYPE_ARP, ETH_TYPE_IP}, tos : {0}]
    \cup [src : {"mac_h20"}, dst : {"mac_h0"}, ethertype : {ETH_TYPE_ARP, ETH_TYPE_IP}, tos : {0}]
    \cup {LldpFrame}
LearnEvents == [dpid : LearnSwitches, in_port : LearnPorts, pkt : LearnFrames]

\* the ports a host was heard on before it was plugged where it is now
EarlierPorts == {3, MAX_HOST_PORT}

\* the graphs after discovery and host learning: the hosts of learned were
\* heard on their port; a host may have been heard on another port of a ToR
HeardGraphs ==
    LET fresh == {Discovered(Switches, {}, PhysLinks, learned) : learned \in SUBSET Macs}
    IN  fresh \cup {LearnHost(G, t, p, m) :
                       G \in fresh, t \in TorDpids, p \in EarlierPorts, m \in Macs}

LearnStart ==
    /\ network_graph \in HeardGraphs
    /\ datapaths = Switches
    /\ tor_switches = {d \in Switches : classify_switch(d) = "TOR"}
    /\ aggr_switches = {d \in Switches : classify_switch(d) = "AGGREGATE"}
    /\ inter_switches = {d \in Switches : classify_switch(d) = "INTERMEDIATE"}
    /\ flow_table = [sw \in Switches |-> {TableMiss}]
    /\ ctl_chan = [sw \in Switches |-> <<>>]
    /\ \E ev \in LearnEvents : pktin_queue = <<ev>>
    /\ wire = {}
    /\ last_in = None
    /\ last_out = <<>>
    /\ last_path = None
    /\ installed = {}
    /\ pkts_left = 0
    /\ query = None
    /\ result = None

\* ---- path installation on the discovered fabric ----
\* the frames to one host that miss at the ToR of their sender: from the
\* host next to it and from a host of the other ToR
MaxBurst == 1
InstallFrames ==
    [src : {"mac_h1", "mac_h20"}, dst : {"mac_h0"}, ethertype : {ETH_TYPE_IP}, tos : {0}]
InstallEvents ==
    {[dpid |-> HostAt[f.src].tor, in_port |-> HostAt[f.src].port, pkt |-> f]
        : f \in {f \in InstallFrames : f.src # f.dst}}

\* the tables after the switches applied the FlowMods of out, in order
RECURSIVE TablesAfter(_, _)
TablesAfter(tables, out) ==
    IF out = <<>> THEN tables
    ELSE LET m == Head(out)
         IN  TablesAfter(IF m.type = "FlowMod"
                         THEN [tables EXCEPT ![m.to] = ApplyFlowMod(@, m)]
                         ELSE tables,
                         Tail(out))

\* the fabric at rest before a burst: no PacketIn was handled yet, or one
\* was and the switches applied all it sent
EarlierInstalls ==
    LET G == Discovered(Switches, {}, PhysLinks, Macs)
        tors == {d \in Switches : classify_switch(d) = "TOR"}
        inter == {d \in Switches : classify_switch(d) = "INTERMEDIATE"}
        fresh == [sw \in Switches |-> {TableMiss}]
    IN  {[ev |-> None, out |-> <<>>, path |-> None, installed |-> {}, tables |-> fresh]}
        \cup UNION {{[ev |-> ev, out |-> o.out, path |-> o.path,
                      installed |-> {[eth_dst |-> ev.pkt.dst, dscp |-> DscpOf(ev.pkt),
                                      path |-> o.path]},
                      tables |-> TablesAfter(fresh, o.out)]
                        : o \in packet_in_outcomes(G, Switches, tors, inter, ev)}
                    : ev \in InstallEvents}

\* every switch has connected, every link is discovered and every host
\* heard; the fabric is at rest and a burst of frames that missed at their
\* ToR has reached the controller.  An intermediate may have left since
\* the earlier installation and its links may have been reported again:
\* the graph is as it was and the switch has no datapath
InstallStart ==
    /\ \E gone \in SUBSET {INTER_BASE} :
          /\ datapaths = Switches \ gone
          /\ network_graph = Reported(Discovered(Switches, gone, PhysLinks, Macs), gone)
    /\ tor_switches = {d \in Switches : classify_switch(d) = "TOR"}
    /\ aggr_switches = {d \in Switches : classify_switch(d) = "AGGREGATE"}
    /\ inter_switches = {d \in Switches : classify_switch(d) = "INTERMEDIATE"}
    /\ \E early \in EarlierInstalls :
          /\ flow_table = early.tables
          /\ last_in = early.ev
          /\ last_out = early.out
          /\ last_path = early.path
          /\ installed = early.installed
    /\ ctl_chan = [sw \in Switches |-> <<>>]
    /\ pktin_queue \in UNION {[1..n -> InstallEvents] : n \in 1..MaxBurst}
    /\ wire = {}
    /\ pkts_left = 0
    /\ query = None
    /\ result = None

(***************************************************************************)
(* The coding pipeline (trace_generation/coding_agent.py)                  *)
(***************************************************************************)
WORKER_START_ID == 2
MaxWorkers == 3
MaxTasks == 4

\* num_tasks = random.randint(int(num_workers * 1), int(num_workers * 2.5))
DefaultNumTasks(num_workers) == num_workers .. ((5 * num_workers) \div 2)

\* the task lines split_into_tasks parsed from the supervisor's response
ParsedTasks(n) == [i \in 1..n |-> "parsed"]

\* while len(tasks) < num_tasks: tasks.append("Additional component ...")
RECURSIVE PadTasks(_, _)
PadTasks(tasks, num_tasks) ==
    IF Len(tasks) < num_tasks
    THEN PadTasks(Append(tasks, "additional"), num_tasks)
    ELSE tasks

\* the task list of split_into_tasks: padded, then tasks[:num_tasks]
split_into_tasks(parsed, num_tasks) ==
    LET padded == PadTasks(parsed, num_tasks)
    IN  SubSeq(padded, 1, Min(Len(padded), num_tasks))

\* for i, task in enumerate(tasks): await task_queue.add_task(i, task)
add_tasks(tasks) == [i \in 1..Len(tasks) |-> <<i - 1, tasks[i]>>]

\* TaskQueue.get_task: tasks.get_nowait(), None on QueueEmpty; the task
\* returned and the queue left
get_task(q) ==
    IF q = <<>>
    THEN [task |-> None, rest |-> q]
    ELSE [task |-> Head(q), rest |-> Tail(q)]

\* the keys of worker_results, a dict: its entries [worker_id, results]
\* are kept in the order in which the keys were inserted
ResultKeys(results) == {results[i].worker_id : i \in DOMAIN results}

\* TaskSupervisor.collect_result; the result text is not modelled, the
\* entry is the task id
collect_result(results, worker_id, task_id) ==
    IF worker_id \notin ResultKeys(results)
    THEN Append(results, [worker_id |-> worker_id, results |-> <<task_id>>])
    ELSE [i \in DOMAIN results |->
            IF results[i].worker_id = worker_id
            THEN [results[i] EXCEPT !.results = Append(@, task_id)]
            ELSE results[i]]

\* for results in worker_results.values(): all_results.extend(results),
\* in the order of the dict
RECURSIVE AllResults(_)
AllResults(results) ==
    IF results = <<>>
    THEN <<>>
    ELSE Head(results).results \o AllResults(Tail(results))

\* TaskSupervisor.get_all_task_results: all results ordered by task id
get_all_task_results(results) ==
    SortSeq(AllResults(results), LAMBDA a, b : a < b)

\* sum(w.tasks_completed for w in workers)
RECURSIVE SumCompleted(_, _)
SumCompleted(ws, n) ==
    IF n = 0 THEN 0 ELSE ws[n - 1].tasks_completed + SumCompleted(ws, n - 1)

\* the head of run_worker_loop, from get_task to the await of llm.invoke:
\* the worker leaves the loop on None, else it holds the task while the
\* request runs in its thread
NextTask(w, ws, q) ==
    LET got == get_task(q)
    IN  IF got.task = None
        THEN [ws EXCEPT ![w].pc = "done", ![w].task = None]
        ELSE [ws EXCEPT ![w].pc = "execute_task", ![w].task = got.task]

\* run_coding_pipeline is called: num_workers >= 1 workers, num_tasks given
\* or left to the default
PipeStart ==
    /\ \E nw \in 1..MaxWorkers, given \in BOOLEAN, nt \in 0..MaxTasks :
          pipeline = [phase |-> "called", num_workers |-> nw,
                      has_num_tasks |-> given,
                      num_tasks |-> IF given THEN nt ELSE 0,
                      result |-> None]
    /\ task_queue = <<>>
    /\ workers = <<>>
    /\ worker_results = <<>>
    /\ llm_calls = <<>>

\* run_coding_pipeline up to asyncio.gather, the supervisor's llm.invoke
\* (line 96) returning: num_tasks is drawn when it is not given, the
\* supervisor fills the queue with exactly num_tasks tasks, the workers
\* are created
SplitIntoTasks ==
    /\ pipeline.phase = "called"
    /\ \E draw \in DefaultNumTasks(pipeline.num_workers), n \in 0..(MaxTasks + 1) :
          LET num_tasks == IF pipeline.has_num_tasks THEN pipeline.num_tasks ELSE draw
              tasks == split_into_tasks(ParsedTasks(n), num_tasks)
          IN  /\ num_tasks <= MaxTasks
              /\ pipeline' = [pipeline EXCEPT !.phase = "workers",
                                              !.num_tasks = num_tasks]
              /\ task_queue' = add_tasks(tasks)
    /\ workers' = [w \in 0..(pipeline.num_workers - 1) |->
                      [pc |-> "created", task |-> None, tasks_completed |-> 0]]
    /\ UNCHANGED <<worker_results, llm_calls>>
    /\ UNCHANGED <<synthVars, replayVars, ctlVars, capVars, anaVars>>

\* the supervisor's llm.invoke (line 96) raises: nothing catches it in
\* split_into_tasks or in run_coding_pipeline, the pipeline raises before
\* a task is queued or a worker created
SupervisorRaises ==
    /\ pipeline.phase = "called"
    /\ pipeline' = [pipeline EXCEPT !.phase = "raised"]
    /\ UNCHANGED <<task_queue, workers, worker_results, llm_calls>>
    /\ UNCHANGED <<synthVars, replayVars, ctlVars, capVars, anaVars>>

\* the event loop runs a worker for the first time, in the order of the
\* gather: it takes its first task or leaves the loop
WorkerStart ==
    \E w \in DOMAIN workers :
        /\ pipeline.phase = "workers"
        /\ workers[w].pc = "created"
        /\ \A v \in 0..(w - 1) : workers[v].pc # "created"
        /\ workers' = NextTask(w, workers, task_queue)
        /\ task_queue' = get_task(task_queue).rest
        /\ UNCHANGED <<pipeline, worker_results, llm_calls>>
        /\ UNCHANGED <<synthVars, replayVars, ctlVars, capVars, anaVars>>

\* llm.invoke returns to a worker: execute_task counts the task, the loop
\* collects the result and goes round, taking the next task or leaving.
\* The result of a thread is delivered by a callback of the event loop,
\* behind the first runs of all workers; a worker still goes on when
\* run_coding_pipeline has raised, as long as it is not cancelled
LlmReturns ==
    \E w \in DOMAIN workers :
        /\ pipeline.phase \in {"workers", "raised"}
        /\ \A v \in DOMAIN workers : workers[v].pc # "created"
        /\ workers[w].pc = "execute_task"
        /\ llm_calls' = Append(llm_calls, workers[w].task[1])
        /\ worker_results' = collect_result(worker_results, WORKER_START_ID + w,
                                            workers[w].task[1])
        /\ workers' = NextTask(w, [workers EXCEPT ![w].tasks_completed = @ + 1],
                               task_queue)
        /\ task_queue' = get_task(task_queue).rest
        /\ UNCHANGED pipeline
        /\ UNCHANGED <<synthVars, replayVars, ctlVars, capVars, anaVars>>

\* llm.invoke raises in a worker's thread (line 184): the exception
\* leaves execute_task before tasks_completed is counted and leaves
\* run_worker_loop before collect_result; the worker's coroutine ends with
\* the task it took
LlmRaises ==
    \E w \in DOMAIN workers :
        /\ pipeline.phase \in {"workers", "raised"}
        /\ \A v \in DOMAIN workers : workers[v].pc # "created"
        /\ workers[w].pc = "execute_task"
        /\ workers' = [workers EXCEPT ![w].pc = "raised"]
        /\ UNCHANGED <<pipeline, task_queue, worker_results, llm_calls>>
        /\ UNCHANGED <<synthVars, replayVars, ctlVars, capVars, anaVars>>

\* asyncio.gather (line 287, no return_exceptions) hands the exception of
\* a worker to run_coding_pipeline, which raises, and main with it (line
\* 327); the other workers are left as they are
GatherRaises ==
    /\ pipeline.phase = "workers"
    /\ \E w \in DOMAIN workers : workers[w].pc = "raised"
    /\ pipeline' = [pipeline EXCEPT !.phase = "raised"]
    /\ UNCHANGED <<task_queue, workers, worker_results, llm_calls>>
    /\ UNCHANGED <<synthVars, replayVars, ctlVars, capVars, anaVars>>

\* asyncio.run (line 336) closes the loop after main has raised: it
\* cancels every worker that still waits for its llm.invoke; a cancelled
\* worker keeps the task it holds and runs no further
CancelWorkers ==
    /\ pipeline.phase = "raised"
    /\ \E w \in DOMAIN workers : workers[w].pc = "execute_task"
    /\ workers' = [w \in DOMAIN workers |->
                      IF workers[w].pc = "execute_task"
                      THEN [workers[w] EXCEPT !.pc = "cancelled"]
                      ELSE workers[w]]
    /\ UNCHANGED <<pipeline, task_queue, worker_results, llm_calls>>
    /\ UNCHANGED <<synthVars, replayVars, ctlVars, capVars, anaVars>>

\* asyncio.gather returns when every worker has left its loop, but the
\* llm.invoke of synthesizer.synthesize (line 252, called at line 300)
\* raises: the pipeline raises and returns no counts
SynthesizeRaises ==
    /\ pipeline.phase = "workers"
    /\ \A w \in DOMAIN workers : workers[w].pc = "done"
    /\ pipeline' = [pipeline EXCEPT !.phase = "raised"]
    /\ UNCHANGED <<task_queue, workers, worker_results, llm_calls>>
    /\ UNCHANGED <<synthVars, replayVars, ctlVars, capVars, anaVars>>

\* asyncio.gather returns when every worker has left its loop and the
\* llm.invoke of synthesizer.synthesize returns; the pipeline returns its
\* counts and the results ordered by task id
PipelineReturn ==
    /\ pipeline.phase = "workers"
    /\ \A w \in DOMAIN workers : workers[w].pc = "done"
    /\ pipeline' = [pipeline EXCEPT
          !.phase = "returned",
          !.result = [task_results |-> get_all_task_results(worker_results),
                      workers_used |-> pipeline.num_workers,
                      tasks_completed |-> SumCompleted(workers, pipeline.num_workers)]]
    /\ UNCHANGED <<task_queue, workers, worker_results, llm_calls>>
    /\ UNCHANGED <<synthVars, replayVars, ctlVars, capVars, anaVars>>

\* run_coding_pipeline has not been called
PipeIdle ==
    /\ pipeline = None
    /\ task_queue = <<>>
    /\ workers = <<>>
    /\ worker_results = <<>>
    /\ llm_calls = <<>>

(***************************************************************************)
(* Specifications                                                          *)
(***************************************************************************)
SynthInit == SynthStart /\ ReplayIdle /\ CtlIdle /\ CapIdle /\ AnaIdle /\ PipeIdle
SynthNext == SkipEntry \/ ExpandEntry
SpecSynth == SynthInit /\ [][SynthNext]_vars

ReplayInit == ReplayStart /\ SynthIdle /\ CtlIdle /\ CapIdle /\ AnaIdle /\ PipeIdle
ReplayNext == ReplayEvent
SpecReplay == ReplayInit /\ [][ReplayNext]_vars

\* the loader and the placement alone
LoadInit == time_scale = 1 /\ ExperimentStart /\ SynthIdle /\ CtlIdle /\ CapIdle /\ AnaIdle /\ PipeIdle
LoadNext == LoadTraces
SpecLoad == LoadInit /\ [][LoadNext]_vars

\* run_multi_trace_experiment from its call to the end of the replay loop
RunInit == ExperimentStart /\ SynthIdle /\ CtlIdle /\ CapIdle /\ AnaIdle /\ PipeIdle
RunNext == LoadTraces \/ ReplayEvent
SpecRun == RunInit /\ [][RunNext]_vars

CtlInit == CtlStart /\ SynthIdle /\ ReplayIdle /\ CapIdle /\ AnaIdle /\ PipeIdle
FrameInit == FrameStart /\ SynthIdle /\ ReplayIdle /\ CapIdle /\ AnaIdle /\ PipeIdle
FrameNext == SwitchForward \/ SwitchApply \/ PacketIn
SpecFrame == FrameInit /\ [][FrameNext]_vars
CtlNext == HostSend \/ LldpProbe \/ SwitchForward \/ SwitchApply \/ PacketIn
SpecCtl == CtlInit /\ [][CtlNext]_vars

CapInit == CapStart /\ SynthIdle /\ ReplayIdle /\ CtlIdle /\ AnaIdle /\ PipeIdle
CapNext == StartProcess \/ EndProcess
SpecCap == CapInit /\ [][CapNext]_vars

AnaInit == AnaStart /\ SynthIdle /\ ReplayIdle /\ CtlIdle /\ CapIdle /\ PipeIdle
AnaNext == AnalyzeLog \/ Report
SpecAna == AnaInit /\ [][AnaNext]_vars

PortInit == PortStart /\ SynthIdle /\ CtlIdle /\ CapIdle /\ AnaIdle /\ PipeIdle
PortNext == ReplayEvent
SpecPorts == PortInit /\ [][PortNext]_vars

TopoInit == TopoStart /\ SynthIdle /\ ReplayIdle /\ CapIdle /\ AnaIdle /\ PipeIdle
TopoNext == SwitchFeatures \/ LinkAdd \/ LinkDelete \/ SwitchLeave
SpecTopo == TopoInit /\ [][TopoNext]_vars

LearnInit == LearnStart /\ SynthIdle /\ ReplayIdle /\ CapIdle /\ AnaIdle /\ PipeIdle
LearnNext == PacketIn
SpecLearn == LearnInit /\ [][LearnNext]_vars

PathInit == PathStart /\ SynthIdle /\ ReplayIdle /\ CapIdle /\ AnaIdle /\ PipeIdle
PathNext == CallEcmp \/ CallVl2
SpecPath == PathInit /\ [][PathNext]_vars

\* bursts of PacketIn on the discovered fabric and the switches applying
\* what the controller sent
InstallInit == InstallStart /\ SynthIdle /\ ReplayIdle /\ CapIdle /\ AnaIdle /\ PipeIdle
InstallNext == PacketIn \/ SwitchApply
SpecInstall == InstallInit /\ [][InstallNext]_vars

\* run_coding_pipeline; every llm.invoke returns, raises or never comes
\* back
PipeInit == PipeStart /\ SynthIdle /\ ReplayIdle /\ CtlIdle /\ CapIdle /\ AnaIdle
PipeNext ==
    \/ SplitIntoTasks \/ SupervisorRaises
    \/ WorkerStart \/ LlmReturns \/ LlmRaises
    \/ GatherRaises \/ CancelWorkers \/ SynthesizeRaises \/ PipelineReturn
SpecPipe == PipeInit /\ [][PipeNext]_vars

(***************************************************************************)
(* Claims about the replayer (SpecReplay)                                  *)
(***************************************************************************)
\* start_wall + time_scale * (t_e - t_first)
Deadline(i) == start_wall_time + time_scale * (events[i].time - events[1].time)

\* C6: every event is launched no earlier than
\* start_wall + time_scale * (t_e - t_first); when that deadline has passed at
\* the event's turn it is launched without any wait; with time_scale = 0 the
\* replayer never waits.
C6_LaunchNotBeforeDeadline ==
    /\ \A n \in DOMAIN timing :
          /\ timing[n].launch >= Deadline(timing[n].idx)
          /\ Deadline(timing[n].idx) <= timing[n].turn
                => (timing[n].slept = 0 /\ timing[n].launch = timing[n].turn)
          /\ time_scale = 0 => timing[n].slept = 0
    /\ \A a \in DOMAIN launches : launches[a].at >= Deadline(launches[a].idx)

\* C6 witness: a flow was launched after the replayer slept for its event
C6_Witness ==
    /\ time_scale > 0
    /\ \E a \in DOMAIN launches, n \in DOMAIN timing :
          /\ timing[n].idx = launches[a].idx
          /\ timing[n].slept > 0
          /\ launches[a].at >= Deadline(launches[a].idx)

\* the other case of C6: a flow launched at once, its deadline having passed
C6_PassedDeadlineReached ==
    /\ time_scale > 0
    /\ \E a \in DOMAIN launches, n \in DOMAIN timing :
          /\ timing[n].idx = launches[a].idx
          /\ timing[n].turn > Deadline(timing[n].idx)
          /\ launches[a].at = timing[n].turn

\* the (event, receiver) pairs the skip policy excludes
PairSkipped(i, k) ==
    \/ events[i].sender \notin DOMAIN host_map
    \/ events[i].receiver[k] \notin DOMAIN host_map
    \/ host_map[events[i].sender] = host_map[events[i].receiver[k]]

Processed == {timing[n].idx : n \in DOMAIN timing}

ProcessedPairs ==
    UNION {{<<i, k>> : k \in DOMAIN events[i].receiver} : i \in Processed}

LaunchesOf(i, k) == {a \in DOMAIN launches : launches[a].idx = i /\ launches[a].k = k}

\* C7: a pair is skipped exactly when its sender or receiver is not placed or
\* both are on one host; every other pair of a processed event is launched
\* exactly once; every skip is counted (a missing sender once per event), the
\* loop goes on after a skip, and a size below 1 is replaced by 1024.
C7_SkipPolicy ==
    /\ \A i \in Processed : \A k \in DOMAIN events[i].receiver :
          Cardinality(LaunchesOf(i, k)) = IF PairSkipped(i, k) THEN 0 ELSE 1
    /\ \A a \in DOMAIN launches :
          /\ launches[a].idx \in Processed
          /\ launches[a].size =
                IF events[launches[a].idx].size2 < 2 THEN 1024
                ELSE events[launches[a].idx].size2 \div 2
    /\ flows_started = Len(launches)
    /\ flows_skipped =
          Cardinality({i \in Processed : events[i].sender \notin DOMAIN host_map})
          + Cardinality({p \in ProcessedPairs :
                           /\ events[p[1]].sender \in DOMAIN host_map
                           /\ PairSkipped(p[1], p[2])})
    /\ rpos <= Len(events) => ENABLED ReplayEvent

\* C7 witness: an event whose first receiver was skipped (same host) and whose
\* second receiver was launched, with a size below 1 replaced by 1024
C7_Witness ==
    \E a \in DOMAIN launches :
        /\ launches[a].k = 2
        /\ PairSkipped(launches[a].idx, 1)
        /\ events[launches[a].idx].size2 < 2
        /\ launches[a].size = 1024
        /\ flows_skipped > 0

\* C8: flows are launched in the order of the merged list: the launch log is
\* ordered by list index, and when a flow of element i has been launched every
\* pair of every earlier element has been launched or skipped.
C8_ListOrder ==
    /\ \A a, b \in DOMAIN launches : a < b => launches[a].idx <= launches[b].idx
    /\ \A a \in DOMAIN launches : \A j \in 1..(launches[a].idx - 1) :
          /\ j \in Processed
          /\ \A k \in DOMAIN events[j].receiver :
                PairSkipped(j, k) \/ LaunchesOf(j, k) # {}

\* C8 witness: two events with the same time have both launched a flow
C8_Witness ==
    \E a, b \in DOMAIN launches :
        /\ launches[a].idx < launches[b].idx
        /\ events[launches[a].idx].time = events[launches[b].idx].time

(***************************************************************************)
(* Claims about the loader and the placement (SpecLoad, SpecRun)           *)
(***************************************************************************)
\* the hosts the placement may use: the first ceil(|hosts| * percentage)
PoolSize ==
    LET n == CeilDiv(Len(hosts) * percentage, PERCENT_BASE)
    IN  IF n = 0 THEN 1 ELSE Min(n, Len(hosts))
\* the group keys of the loaded processes and the members of a group, in
\* the order of the process list
LoadedGroups == {GroupOf(all_logical_procs[n]) : n \in DOMAIN all_logical_procs}
GroupMembers(g) ==
    LET InGroup(pr) == GroupOf(pr) = g
    IN  SelectSeq(all_logical_procs, InGroup)

\* C18: strided placement: in a group that is not larger than the physical
\* pool no two members are mapped to the same host; the i-th member
\* (i = 0, 1, ...) is mapped to pool[i mod |pool|].
C18_StridedPlacement ==
    phase = "replay" =>
        \A g \in LoadedGroups :
            LET members == GroupMembers(g)
            IN  Len(members) <= PoolSize =>
                  /\ \A i \in DOMAIN members :
                        host_map[members[i]] = hosts[((i - 1) % PoolSize) + 1]
                  /\ \A i, j \in DOMAIN members :
                        i # j => host_map[members[i]] # host_map[members[j]]

\* C18 witness: a group of three processes was placed on a pool of three hosts
C18_Witness ==
    /\ phase = "replay"
    /\ PoolSize = 3
    /\ \E g \in LoadedGroups : Len(GroupMembers(g)) = 3

\* C19: the placement map is injective: no two distinct namespaced process
\* ids are assigned the same physical host.
C19_PlacementInjective ==
    \A pr, qr \in DOMAIN host_map :
        pr # qr => host_map[pr] # host_map[qr]

\* C20: when the trace file is a JSON array with no elements the loader
\* returns an empty process list and an empty event list without raising,
\* and the replay starts zero flows.
C20_EmptyFileLoadsEmpty ==
    (/\ phase # "start"
     /\ trace_files # <<>>
     /\ \A k \in DOMAIN trace_files : trace_files[k] = [ok |-> TRUE, data |-> <<>>])
        => /\ phase = "replay"
           /\ all_logical_procs = <<>>
           /\ events = <<>>
           /\ flows_started = 0
           /\ launches = <<>>

\* what a file is for the loader: unreadable, with a process map that has
\* the key '0' first, or with something that is no process map first
Unreadable(f) == ~f.ok
MapFirst(f) == f.ok /\ f.data # <<>> /\ "cfg" \in DOMAIN f.data[1]
                    /\ 0 \in DOMAIN f.data[1].cfg
NonMapFirst(f) == f.ok /\ f.data # <<>> /\ "cfg" \notin DOMAIN f.data[1]
\* the original names of a process map and the events that follow it
NamesOf(f) == {f.data[1].cfg[g][n] : <<g, n>> \in
                  {gn \in (DOMAIN f.data[1].cfg) \X (1..3) :
                      gn[2] \in DOMAIN f.data[1].cfg[gn[1]]}}
EventsOf(f) == SubSeq(f.data, 2, Len(f.data))
\* the loaded processes and events that carry the prefix of file k (k = 1, ...)
HasPrefix(name, k) == name[1] = k - 1
Unprefixed(name) == SubSeq(name, 2, Len(name))
ProcsFrom(k) ==
    LET FromK(pr) == HasPrefix(pr, k)
    IN  SelectSeq(all_logical_procs, FromK)
EventsFrom(k) ==
    LET FromK(ev) == HasPrefix(ev.sender, k)
    IN  SelectSeq(events, FromK)
UnprefixedEvent(ev) ==
    [ev EXCEPT !.sender = Unprefixed(@),
               !.receiver = [n \in DOMAIN @ |-> Unprefixed(@[n])]]

\* C21: a file whose first element is not a process map is skipped: it
\* contributes no process and no event, no exception leaves the loader and
\* the other files of the list are loaded (the other files being unreadable
\* or starting with a process map).
C21_NonMapFileSkipped ==
    (/\ phase # "start"
     /\ \A k \in DOMAIN trace_files :
           Unreadable(trace_files[k]) \/ MapFirst(trace_files[k])
               \/ NonMapFirst(trace_files[k]))
        => \A k \in DOMAIN trace_files :
              NonMapFirst(trace_files[k]) =>
                 /\ phase = "replay"
                 /\ ProcsFrom(k) = <<>>
                 /\ EventsFrom(k) = <<>>
                 /\ \A j \in DOMAIN trace_files :
                       MapFirst(trace_files[j]) =>
                          /\ Len(ProcsFrom(j)) = Cardinality(NamesOf(trace_files[j]))
                          /\ Len(EventsFrom(j)) = Len(EventsOf(trace_files[j]))

\* C22: every identifier of the file at list index k (sub-nodes of the
\* process map, event senders, event receivers) is loaded with the prefix
\* "k-" in front of the unchanged original identifier, so identifiers of
\* different files are never equal.
C22_PrefixedByFileIndex ==
    phase = "replay" =>
        /\ \A n \in DOMAIN all_logical_procs :
              \E k \in DOMAIN trace_files :
                  MapFirst(trace_files[k]) /\ HasPrefix(all_logical_procs[n], k)
        /\ \A k \in DOMAIN trace_files :
              MapFirst(trace_files[k]) =>
                 /\ Len(ProcsFrom(k)) = Cardinality(NamesOf(trace_files[k]))
                 /\ {Unprefixed(pr) : pr \in Range(ProcsFrom(k))} = NamesOf(trace_files[k])
                 /\ Len(EventsFrom(k)) = Len(EventsOf(trace_files[k]))
                 /\ \A n \in DOMAIN EventsFrom(k) :
                       /\ \A r \in DOMAIN EventsFrom(k)[n].receiver :
                             HasPrefix(EventsFrom(k)[n].receiver[r], k)
                       /\ UnprefixedEvent(EventsFrom(k)[n]) \in Range(EventsOf(trace_files[k]))
        /\ Len(events) = Len(Concat([k \in DOMAIN trace_files |-> EventsFrom(k)]))

\* C22 witness: two files with the same process map and the same event were
\* loaded
C22_Witness ==
    /\ phase = "replay"
    /\ Len(trace_files) = 2
    /\ trace_files[1] = trace_files[2]
    /\ MapFirst(trace_files[1])
    /\ EventsOf(trace_files[1]) # <<>>
    /\ Len(events) = 2 * Len(EventsOf(trace_files[1]))

\* the events of the file at index k, in file order, prefixed
LoadOrder(k) ==
    [n \in DOMAIN EventsOf(trace_files[k]) |->
        [EventsOf(trace_files[k])[n] EXCEPT
            !.sender = <<k - 1>> \o @,
            !.receiver = [r \in DOMAIN @ |-> <<k - 1>> \o @[r]]]]
AtTime(evs, t) ==
    LET IsAt(ev) == ev.time = t
    IN  SelectSeq(evs, IsAt)

\* C23: the merged event list is non-decreasing in time, and events of equal
\* time are in load order: by file index, and within a file by position.
C23_StableSortByTime ==
    phase = "replay" =>
        /\ \A n \in 1..(Len(events) - 1) :
              /\ events[n].time <= events[n + 1].time
              /\ events[n].time = events[n + 1].time =>
                    events[n].sender[1] <= events[n + 1].sender[1]
        /\ \A k \in DOMAIN trace_files :
              MapFirst(trace_files[k]) =>
                 \A t \in 0..MaxEventTime :
                    AtTime(EventsFrom(k), t) = AtTime(LoadOrder(k), t)

\* C23 witness: a file that is not sorted by time and has two different
\* events of equal time was merged with an event of that time of another file
C23_Witness ==
    /\ phase = "replay"
    /\ \E k \in DOMAIN trace_files :
          /\ MapFirst(trace_files[k])
          /\ k < Len(trace_files)
          /\ ~IsSortedByTime(EventsOf(trace_files[k]))
          /\ EventsFrom(k + 1) # <<>>
          /\ EventsFrom(k + 1)[1].time = EventsFrom(k)[1].time
    /\ \E n \in 1..(Len(events) - 1) :
          /\ events[n].time = events[n + 1].time
          /\ events[n].sender[1] = events[n + 1].sender[1]
          /\ events[n] # events[n + 1]

(***************************************************************************)
(* Claims about the capacity check (SpecCap)                               *)
(***************************************************************************)
\* the GPUs that the pairs from the k-th on take from host th under a node map
RECURSIVE CostOn(_, _, _, _)
CostOn(nodes, k, node_map, th) ==
    IF k > Len(nodes) THEN 0
    ELSE (IF node_map[nodes[k][1]] = th THEN nodes[k][2] ELSE 0)
             + CostOn(nodes, k + 1, node_map, th)
ServerHosts == {<<t, h>> : t \in 0..(NUM_TOR - 1), h \in 0..(NUM_HOST - 1)}

\* C24: a start_process call that cannot place some sub-node returns no node
\* map and the capacity table it was given, unchanged; a call that returns a
\* node map has placed every sub-node on a host that had the capacity.
C24_FailureRollsBack ==
    last_start # None =>
        IF last_start.node_map = None
        THEN last_start.servers = last_start.before
        ELSE /\ DOMAIN last_start.node_map = {nd[1] : nd \in Range(NodesOf(agents))}
             /\ \A th \in ServerHosts :
                   /\ last_start.servers[th[1]][th[2]] >= 0
                   /\ last_start.servers[th[1]][th[2]] =
                         last_start.before[th[1]][th[2]]
                            - CostOn(NodesOf(agents), 1, last_start.node_map, th)

\* C24 witness: a call failed at a later sub-node after its first sub-node
\* had found a host, so there was a partial allocation to undo
C24_Witness ==
    /\ last_start # None
    /\ last_start.node_map = None
    /\ Len(NodesOf(agents)) > 1
    /\ \E th \in ServerHosts :
          last_start.before[th[1]][th[2]] >= NodesOf(agents)[1][2]

(***************************************************************************)
(* Claims about the metrics analyzer (SpecAna)                             *)
(***************************************************************************)
\* C25: every log file is counted in exactly one of successful, empty file,
\* JSON parse error, incomplete JSON, server busy, connection refused and
\* other tool error: the reported counts add up to the number of log files.
C25_CountsAddUp ==
    report # None =>
        report.successful + report.empty + report.parse_errors + report.incomplete
            + report.busy + report.refused + report.other = report.files

\* C26: the log <idx>_<src>_to_<dst>.json of a successful flow is classified
\* as distributed inference iff src and dst have the same group key and as
\* agent-to-agent otherwise, whatever idx is; every successful flow is in
\* exactly one of the two classes.
C26_FlowClassByGroupKey ==
    /\ (last_log # None /\ last_log.branch = "success") =>
          last_log.flow_type =
              IF GroupOf(last_log.sender) = GroupOf(last_log.rx)
              THEN "distributed_inference" ELSE "agent_agent"
    /\ Len(dist_inf_fcts) + Len(agent_fcts) = Len(fcts)
    /\ dist_inf_bytes + agent_bytes = total_bytes

\* C26 witness: flows of both classes were counted, the last one a
\* distributed inference flow with a two-digit event index
C26_Witness ==
    /\ last_log # None
    /\ last_log.branch = "success"
    /\ last_log.idx > 9
    /\ GroupOf(last_log.sender) = GroupOf(last_log.rx)
    /\ agent_fcts # <<>>
    /\ Len(fcts) > Len(agent_fcts)

(***************************************************************************)
(* Claims about the synthesizer (SpecSynth)                                *)
(***************************************************************************)
\* C9: the flow events of the synthesized trace are in non-decreasing order
\* of time (all inputs have llm_gen_time >= 0 and data_size >= 0).
C9_EventsSortedByTime ==
    \A i \in 1..(Len(full_trace) - 1) : full_trace[i].time <= full_trace[i + 1].time

\* C10: no synthesized flow event has size <= 0.
C10_SizesPositive ==
    \A i \in DOMAIN full_trace : full_trace[i].size > 0

\* the iterations that emitted events, and the entry of an iteration
Expanded == {n \in DOMAIN iterations : iterations[n].to >= iterations[n].from}
EntryOf(n) == trace[iterations[n].idx]
TypeOf(n) == senders[EntryOf(n).sender]
\* the number of sub-flows of an expanded iteration (its events but the last)
SubFlowCount(n) == iterations[n].to - iterations[n].from
\* the m-th event of iteration n, m = 0, 1, ...
EventAt(n, m) == full_trace[iterations[n].from + m]
\* sub-node i (0..7) of the sender of iteration n
SubNode(n, i) == <<EntryOf(n).sender, i>>
PatternOf(n) ==
    get_message_size_and_interval(iterations[n].in_size, EntryOf(n).data_size,
                                  EntryOf(n).llm_gen_time, NUM_NODES)
\* sender == -1, a receiver == -1 or llm_gen_time == 0
SeedEntry(entry) ==
    entry.sender = -1 \/ (\E k \in DOMAIN entry.receiver : entry.receiver[k] = -1)
        \/ entry.llm_gen_time = 0

ListedCount(id) ==
    Cardinality({sk \in (DOMAIN senders) \X (1..NUM_NODES) :
                    ProcessDescriptor(senders)[sk[1]][sk[2]] = id})

\* C11: every sub-node id that is the sender or a receiver of a synthesized
\* event (the receivers of application messages included) is listed exactly
\* once in the process-descriptor map.
C11_IdsListedOnce ==
    \A i \in DOMAIN full_trace :
        \A id \in {full_trace[i].sender} \cup Range(full_trace[i].receiver) :
            ListedCount(id) = 1

\* C12: for a pipeline entry with n sub-nodes the first n-1 sub-flows go
\* from sub-node k-1 to sub-node k at cumulative_time + k * prefill_interval,
\* k = 1..n-1, and the decode sub-flows that follow come in ticks that are
\* exactly SECONDS_PER_TOKEN apart, the first one SECONDS_PER_TOKEN after the
\* last prefill sub-flow.
C12_PipelineTimes ==
    \A n \in Expanded :
        TypeOf(n) = "pipeline" =>
            LET hops == NUM_NODES - 1
                pi == PatternOf(n).prefill_interval
            IN  /\ SubFlowCount(n) >= hops
                /\ (SubFlowCount(n) - hops) % hops = 0
                /\ \A k \in 1..hops :
                      /\ EventAt(n, k - 1).time = iterations[n].cum + k * pi
                      /\ EventAt(n, k - 1).sender = SubNode(n, k - 1)
                      /\ EventAt(n, k - 1).receiver = <<SubNode(n, k)>>
                /\ \A m \in 0..(SubFlowCount(n) - hops - 1) :
                      EventAt(n, hops + m).time =
                          iterations[n].cum + hops * pi
                              + ((m \div hops) + 1) * SECONDS_PER_TOKEN

\* C12 witness: a pipeline entry with a positive prefill interval was
\* expanded into 7 prefill sub-flows and two decode ticks
C12_Witness ==
    \E n \in Expanded :
        /\ TypeOf(n) = "pipeline"
        /\ PatternOf(n).prefill_interval > 0
        /\ SubFlowCount(n) = 3 * (NUM_NODES - 1)

\* the p-th ordered pair (p = 0, 1, ...) of distinct indices 0..n-1, row-major
RowMajorPair(p, n) ==
    LET i == p \div (n - 1)
        jj == p % (n - 1)
    IN  <<i, IF jj < i THEN jj ELSE jj + 1>>

\* C13: every tensor tick has exactly n*(n-1) sub-flows, one per ordered
\* pair of distinct sub-nodes in row-major order; every hybrid tick has
\* exactly 8 sub-flows, the two directions of each of the 4 pairs.
C13_TickShape ==
    \A n \in Expanded :
        /\ TypeOf(n) = "tensor" =>
              LET per == NUM_NODES * (NUM_NODES - 1)
              IN  /\ SubFlowCount(n) % per = 0
                  /\ \A m \in 0..(SubFlowCount(n) - 1) :
                        LET pr == RowMajorPair(m % per, NUM_NODES)
                        IN  /\ EventAt(n, m).sender = SubNode(n, pr[1])
                            /\ EventAt(n, m).receiver = <<SubNode(n, pr[2])>>
                            /\ EventAt(n, m).time = EventAt(n, m - (m % per)).time
        /\ TypeOf(n) = "hybrid" =>
              /\ SubFlowCount(n) % 8 = 0
              /\ \A m \in 0..(SubFlowCount(n) - 1) :
                    LET g == (m % 8) \div 2
                        d == m % 2
                    IN  /\ EventAt(n, m).sender = SubNode(n, 2 * g + d)
                        /\ EventAt(n, m).receiver = <<SubNode(n, 2 * g + 1 - d)>>
                        /\ EventAt(n, m).time = EventAt(n, m - (m % 8)).time

\* C13 witness: a tensor entry was expanded into its 8 prefill ticks and at
\* least one decode tick of 56 sub-flows each
C13_Witness ==
    \E n \in Expanded :
        /\ TypeOf(n) = "tensor"
        /\ SubFlowCount(n) > NUM_NODES * NUM_NODES * (NUM_NODES - 1)

\* C14: every non-skipped entry emits exactly one application message, as
\* the last of its events and not earlier than any of its sub-flows: from
\* the sender's last sub-node to the .0 sub-node of every receiver, at
\* cumulative_time + llm_gen_time, with size output_size_kb * 1000.
C14_ApplicationMessage ==
    \A n \in DOMAIN iterations :
        (~SeedEntry(EntryOf(n)) /\ iterations[n].in_size # 0) =>
            /\ n \in Expanded
            /\ LET last == full_trace[iterations[n].to]
               IN  /\ last.sender = SubNode(n, NUM_NODES - 1)
                   /\ last.receiver = [k \in DOMAIN EntryOf(n).receiver |->
                                          <<EntryOf(n).receiver[k], 0>>]
                   /\ last.time = iterations[n].cum + EntryOf(n).llm_gen_time
                   /\ last.size = EntryOf(n).data_size
                   /\ \A m \in 0..(SubFlowCount(n) - 1) :
                         /\ EventAt(n, m).time <= last.time
                         /\ EventAt(n, m).receiver # last.receiver

\* C14 witness: an entry with two receivers was expanded
C14_Witness ==
    \E n \in Expanded :
        /\ Len(EntryOf(n).receiver) = 2
        /\ SubFlowCount(n) > 0
        /\ EntryOf(n).data_size > 0

\* C15: an entry that is no seed (sender, receivers and llm_gen_time are
\* regular) and carries input size 0 emits exactly one event, its
\* application message.
C15_ZeroInputEmitsAppMessage ==
    \A n \in DOMAIN iterations :
        (~SeedEntry(EntryOf(n)) /\ iterations[n].in_size = 0) =>
            /\ iterations[n].to = iterations[n].from
            /\ full_trace[iterations[n].to].sender = SubNode(n, NUM_NODES - 1)
            /\ full_trace[iterations[n].to].time =
                  iterations[n].cum + EntryOf(n).llm_gen_time

\* C16: an entry with sender == -1, a receiver == -1 or llm_gen_time == 0
\* appends no event; it sets the carried input size to its data size and
\* leaves cumulative_time alone.
C16_SeedAddsNoFlow ==
    \A n \in DOMAIN iterations :
        SeedEntry(EntryOf(n)) =>
            /\ iterations[n].to < iterations[n].from
            /\ iterations[n].in_after = EntryOf(n).data_size
            /\ iterations[n].cum_after = iterations[n].cum

\* C16 witness: after an expanded entry, an agent entry with llm_gen_time 0
\* and regular receivers was passed over while the carried input size was
\* not 0
C16_Witness ==
    \E n \in DOMAIN iterations :
        /\ EntryOf(n).sender # -1
        /\ EntryOf(n).llm_gen_time = 0
        /\ -1 \notin Range(EntryOf(n).receiver)
        /\ iterations[n].in_size # 0
        /\ full_trace # <<>>

\* C17: the prefill time of an expanded entry is
\* max(0, llm_gen_time - decode_time) with
\* decode_time = (output bytes / 4) * SECONDS_PER_TOKEN; it is never negative
\* and no event of the entry is timed before the entry's cumulative_time.
C17_PrefillNotNegative ==
    \A n \in Expanded :
        LET tb == get_time_breakdown(EntryOf(n).data_size, EntryOf(n).llm_gen_time)
            decode_time == (EntryOf(n).data_size \div BYTES_PER_TOKEN) * SECONDS_PER_TOKEN
            rest == EntryOf(n).llm_gen_time - decode_time
        IN  /\ tb.decode = decode_time
            /\ tb.prefill = IF rest > 0 THEN rest ELSE 0
            /\ tb.prefill >= 0
            /\ \A m \in 0..SubFlowCount(n) : EventAt(n, m).time >= iterations[n].cum

(***************************************************************************)
(* Claims about the path functions (SpecPath)                              *)
(***************************************************************************)
IsInterNode(node) == ~IsStr(node) /\ classify_switch(IdOf(node)) = "INTERMEDIATE"

\* C3: with a non-empty intermediate set, a path returned by get_vl2_path
\* starts at the source, ends at the destination and contains at least one
\* DPID of the intermediate range 1000..1999 (for every source and
\* destination, a ToR and a host of another rack included).
C3_VlbPathShape ==
    (query # None /\ query.fn = "get_vl2_path" /\ inter_switches # {} /\ result # None)
        => /\ result[1] = query.src
           /\ result[Len(result)] = query.dst
           /\ \E k \in DOMAIN result : IsInterNode(result[k])

\* C3 witness: a VLB path from ToR 3000 to a host of the other rack was returned
C3_Witness ==
    /\ query # None
    /\ query.fn = "get_vl2_path"
    /\ query.src = Dp(TOR_BASE)
    /\ query.dst = Host("mac_h20")
    /\ ~HasEdge(network_graph, query.src, query.dst)
    /\ inter_switches # {}
    /\ result # None
    /\ Len(result) = 6

LegFails(node) ==
    \/ get_ecmp_path(network_graph, query.src, node) = {None}
    \/ get_ecmp_path(network_graph, node, query.dst) = {None}

\* C4: get_vl2_path(s, d) returns a result of get_ecmp_path(s, d) when there
\* is no intermediate switch and when a leg through the intermediate has no
\* path, and it returns no path only when get_ecmp_path(s, d) has none.
C4_FallsBackToEcmp ==
    (query # None /\ query.fn = "get_vl2_path")
        => /\ (inter_switches = {} \/ \A i \in inter_switches : LegFails(Dp(i)))
                 => result \in get_ecmp_path(network_graph, query.src, query.dst)
           /\ result = None
                 => get_ecmp_path(network_graph, query.src, query.dst) = {None}

\* the nodes a walk from the nodes of frontier reaches
RECURSIVE ReachFrom(_, _, _)
ReachFrom(G, seen, frontier) ==
    LET next == {v \in G.nodes : \E u \in frontier : HasEdge(G, u, v)} \ seen
    IN  IF next = {} THEN seen ELSE ReachFrom(G, seen \cup next, next)

\* the walks of fewest hops that end in d, among walks and their extensions
RECURSIVE FewestHops(_, _, _)
FewestHops(G, walks, d) ==
    LET done == {w \in walks : w[Len(w)] = d}
    IN  IF done # {} THEN done
        ELSE FewestHops(G, UNION {{Append(w, v) : v \in {n \in G.nodes : HasEdge(G, w[Len(w)], n)}}
                                     : w \in walks}, d)

\* every walk from s to d with the fewest hops; empty when there is none
MinHopPaths(G, s, d) ==
    IF s \notin G.nodes \/ d \notin G.nodes THEN {}
    ELSE IF d \notin ReachFrom(G, {s}, {s}) THEN {}
    ELSE FewestHops(G, {<<s>>}, d)

\* C27: get_ecmp_path(s, d) returns a path that starts at s, ends at d,
\* follows edges of the graph and has the fewest hops; the paths it chooses
\* from are all the minimum-hop paths from s to d, so any of them can be
\* returned; it returns no path when d is unreachable from s or when s or d
\* is not a node of the graph.
C27_EcmpMinHopPath ==
    (query # None /\ query.fn = "get_ecmp_path")
        => LET G == network_graph
               best == MinHopPaths(G, query.src, query.dst)
           IN  /\ query.paths = best
               /\ best = {} <=> result = None
               /\ result # None
                     => /\ result \in best
                        /\ result[1] = query.src
                        /\ result[Len(result)] = query.dst
                        /\ \A k \in 1..(Len(result) - 1) : HasEdge(G, result[k], result[k + 1])
                        /\ \A p \in best : Len(p) = Len(result)

\* C27 witness: a path between two racks was returned where two aggregate
\* switches give two paths of the same length
C27_Witness ==
    /\ query # None
    /\ query.fn = "get_ecmp_path"
    /\ query.src = Dp(TOR_BASE)
    /\ query.dst = Host("mac_h20")
    /\ result # None
    /\ Cardinality(query.paths) >= 2
    /\ result \in query.paths
    /\ Len(result) = 4

(***************************************************************************)
(* Claims about the controller and the fabric (SpecCtl)                    *)
(***************************************************************************)
\* the aggregate and intermediate switches of a path
NonTerminal(path) ==
    {path[k] : k \in {k \in DOMAIN path :
        /\ ~IsStr(path[k])
        /\ classify_switch(IdOf(path[k])) \in {"AGGREGATE", "INTERMEDIATE"}}}

\* pkt matches the (eth_dst[, DSCP]) an install was made for
SameFlow(inst, pkt) ==
    /\ inst.eth_dst = pkt.dst
    /\ inst.dscp = NoDscp \/ inst.dscp = DscpOf(pkt)

\* C1: after a path has been installed for (eth_dst[, DSCP]), no PacketIn
\* matching it is raised by an aggregate or intermediate switch of that path.
C1_NoPacketInOnInstalledPath ==
    [][Len(pktin_queue') = Len(pktin_queue) + 1
         => LET e == pktin_queue'[Len(pktin_queue')]
            IN  \A inst \in installed :
                   SameFlow(inst, e.pkt) => Dp(e.dpid) \notin NonTerminal(inst.path)]_vars

\* C2: when a multi-hop path is installed, every FlowMod to a downstream
\* switch is sent before the PacketOut that releases the packet on the
\* source ToR.
C2_FlowModsBeforePacketOut ==
    (last_path # None /\ Len(last_path) > 2)
        => \A k \in DOMAIN last_out : \A j \in DOMAIN last_out :
              (/\ last_out[k].type = "PacketOut"
               /\ last_out[j].type = "FlowMod"
               /\ last_out[j].to # last_in.dpid)
                  => j < k

\* C5: on a broadcast PacketIn from port p of ToR T no PacketOut has an
\* output action for port p of T, and every other port 1..20 of every
\* connected ToR is an output of a PacketOut to that ToR.
C5_BroadcastFlood ==
    (last_in # None /\ last_in.pkt.dst = BROADCAST
        /\ classify_switch(last_in.dpid) = "TOR")
        => /\ \A k \in DOMAIN last_out :
                 (last_out[k].type = "PacketOut" /\ last_out[k].to = last_in.dpid)
                    => last_in.in_port \notin last_out[k].ports
           /\ \A tor \in tor_switches \cap datapaths : \A port \in 1..MAX_HOST_PORT :
                 ~(tor = last_in.dpid /\ port = last_in.in_port)
                    => \E k \in DOMAIN last_out :
                          /\ last_out[k].type = "PacketOut"
                          /\ last_out[k].to = tor
                          /\ port \in last_out[k].ports

\* C5 witness: a broadcast from port 1 of ToR 3000 was flooded to both ToRs
C5_Witness ==
    /\ last_in # None
    /\ last_in.pkt.dst = BROADCAST
    /\ last_in.dpid = TOR_BASE
    /\ last_in.in_port = 1
    /\ {TOR_BASE, TOR_BASE + 1} \subseteq datapaths
    /\ \E k \in DOMAIN last_out : last_out[k].to = TOR_BASE + 1
    /\ \E k \in DOMAIN last_out : last_out[k].to = TOR_BASE


\* the state of the controller and of the channels to the switches, without
\* the records of the event handled last and of what was sent for it
ctlVars_NoEvent ==
    <<network_graph, datapaths, tor_switches, aggr_switches, inter_switches,
      flow_table, ctl_chan, pktin_queue, wire, last_path, installed,
      pkts_left, query, result>>

\* the FlowMods of the last run of _packet_in_handler
LastFlowMods == {last_out[k] : k \in {k \in DOMAIN last_out : last_out[k].type = "FlowMod"}}

\* the rules the switches hold besides the table-miss rule
InstalledRules(sw) == {r \in flow_table[sw] : r.out_port # OFPP_CONTROLLER}

\* C28: when a path is installed for dst_mac, every switch u of the path
\* with successor v is sent a rule that matches eth_dst = dst_mac (and the
\* DSCP of the packet when the packet is IPv4) and outputs on the port of
\* the graph edge (u, v), with priority 20 when it matches a DSCP and 10
\* otherwise; every rule sent or held, the table-miss rule aside, has a
\* priority above that of the table-miss rule.
C28_RulePerHop ==
    /\ last_path # None
          => \A i \in 1..(Len(last_path) - 1) :
                ~IsStr(last_path[i])
                  => \E m \in LastFlowMods :
                        /\ m.to = IdOf(last_path[i])
                        /\ m.eth_dst = last_in.pkt.dst
                        /\ m.out_port = network_graph.port[<<last_path[i], last_path[i + 1]>>]
                        /\ IF last_in.pkt.ethertype = ETH_TYPE_IP
                           THEN m.dscp = last_in.pkt.tos \div 4 /\ m.priority = 20
                           ELSE m.dscp = NoDscp /\ m.priority = 10
    /\ \A m \in LastFlowMods : m.priority > TableMiss.priority
    /\ \A sw \in DOMAIN flow_table : \A r \in InstalledRules(sw) :
          /\ r.priority > TableMiss.priority
          /\ r.priority = IF r.dscp # NoDscp THEN 20 ELSE 10

\* C29: every rule installed for an IPv4 packet with DSCP 8 carries
\* set_queue(1), and every rule installed for another packet (another DSCP,
\* or a frame that is not IPv4) carries set_queue(0).
C29_QueueByDscp ==
    /\ \A m \in LastFlowMods :
          m.queue = IF last_in.pkt.ethertype = ETH_TYPE_IP /\ last_in.pkt.tos \div 4 = 8
                    THEN 1 ELSE 0
    /\ \A sw \in DOMAIN flow_table : \A r \in InstalledRules(sw) :
          r.queue = IF r.dscp = 8 THEN 1 ELSE 0

\* C29 witness: rules with set_queue(0) for DSCP 4 were installed
C29_Witness ==
    /\ LastFlowMods # {}
    /\ last_in.pkt.ethertype = ETH_TYPE_IP
    /\ last_in.pkt.tos \div 4 = 4
    /\ \A m \in LastFlowMods : m.queue = 0 /\ m.dscp = 4


\* the PacketIn the controller handles next comes from a host-facing port of a ToR
FromHostPort(ev) ==
    /\ ev.pkt.ethertype # ETH_TYPE_LLDP
    /\ classify_switch(ev.dpid) = "TOR"
    /\ ev.in_port \in 1..20

\* C30: after a PacketIn that is not LLDP on ToR T from a host-facing port
\* p in 1..20 with source MAC m, the graph has the edge T -> m with port p
\* and the edge m -> T, also when m was learned on another port of T
\* before; the other edges are as they were, and when the edge T -> m had
\* port p already the graph is unchanged.
C30_HostLearned ==
    [][(pktin_queue # <<>> /\ pktin_queue' = Tail(pktin_queue) /\ FromHostPort(Head(pktin_queue)))
         => LET ev == Head(pktin_queue)
                T == Dp(ev.dpid)
                m == Host(ev.pkt.src)
                G == network_graph
                H == network_graph'
            IN  /\ HasEdge(H, T, m)
                /\ H.port[<<T, m>>] = ev.in_port
                /\ HasEdge(H, m, T)
                /\ \A e \in (DOMAIN G.port \cup DOMAIN H.port) \ {<<T, m>>, <<m, T>>} :
                      e \in DOMAIN G.port /\ e \in DOMAIN H.port /\ G.port[e] = H.port[e]
                /\ (HasEdge(G, T, m) /\ G.port[<<T, m>>] = ev.in_port) => H = G]_vars

\* C30 witness: the controller has handled a PacketIn from port 3 of ToR
\* 3000 with the source MAC of a host plugged into port 1, and the edge to
\* the host has port 3
C30_Witness ==
    /\ last_in # None
    /\ pktin_queue = <<>>
    /\ last_in.dpid = TOR_BASE
    /\ last_in.in_port = 3
    /\ last_in.pkt.src = "mac_h0"
    /\ HostAt["mac_h0"].port = 1
    /\ HasEdge(network_graph, Dp(TOR_BASE), Host("mac_h0"))
    /\ network_graph.port[<<Dp(TOR_BASE), Host("mac_h0")>>] = 3
    /\ HasEdge(network_graph, Host("mac_h0"), Dp(TOR_BASE))


\* the PacketOuts of the last run of _packet_in_handler
LastPacketOuts == {k \in DOMAIN last_out : last_out[k].type = "PacketOut"}

\* the last PacketIn handled was a unicast frame from a host-facing port of a ToR
UnicastFromHost ==
    /\ last_in # None
    /\ FromHostPort(last_in)
    /\ last_in.pkt.dst # BROADCAST

\* C31: for a unicast PacketIn from a host port whose destination MAC is not
\* learned, the controller installs no rule and floods the packet to the
\* host-facing ports of the connected ToRs; when the destination is learned
\* and the graph has a path to it from the source ToR, the controller
\* installs rules along a whole path from the source ToR to the destination.
C31_FloodThenInstall ==
    UnicastFromHost
      => LET src == Dp(last_in.dpid)
             dst == Host(last_in.pkt.dst)
         IN  /\ dst \notin network_graph.nodes
                   => /\ LastFlowMods = {}
                      /\ last_path = None
                      /\ \A t \in tor_switches \cap datapaths :
                            \E k \in LastPacketOuts :
                               /\ last_out[k].to = t
                               /\ last_out[k].pkt = last_in.pkt
                               /\ last_out[k].ports =
                                     (1..20) \ (IF t = last_in.dpid THEN {last_in.in_port} ELSE {})
             /\ MinHopPaths(network_graph, src, dst) # {}
                   => /\ last_path # None
                      /\ last_path[1] = src
                      /\ last_path[Len(last_path)] = dst
                      /\ \A i \in 1..(Len(last_path) - 1) :
                            /\ HasEdge(network_graph, last_path[i], last_path[i + 1])
                            /\ \E m \in LastFlowMods : m.to = IdOf(last_path[i])


\* C39: a broadcast PacketIn from a host-facing port is flooded once: the
\* controller sends exactly one PacketOut to each connected ToR and
\* installs no flow rule.
C39_FloodedOnce ==
    (last_in # None /\ FromHostPort(last_in) /\ last_in.pkt.dst = BROADCAST)
      => /\ LastFlowMods = {}
         /\ \A t \in tor_switches \cap datapaths :
               Cardinality({k \in LastPacketOuts : last_out[k].to = t}) = 1


\* the number of flows launched toward host h among the first n launches
EarlierTo(h, n) == Cardinality({k \in 1..n : launches[k].to = h})

\* C35: the j-th flow (j = 0, 1, ...) launched toward a physical host uses
\* port BASE_PORT + (j mod num_server_ports), a port of BASE_PORT ..
\* BASE_PORT + num_server_ports - 1; each destination has its own counter,
\* which counts the flows launched toward it and no skipped flow.
C35_PortRoundRobin ==
    /\ \A n \in DOMAIN launches :
          /\ launches[n].port = BASE_PORT + (EarlierTo(launches[n].to, n - 1) % num_server_ports)
          /\ launches[n].port \in BASE_PORT..(BASE_PORT + num_server_ports - 1)
    /\ DOMAIN host_port_counter = {launches[n].to : n \in DOMAIN launches}
    /\ \A h \in DOMAIN host_port_counter :
          host_port_counter[h] = EarlierTo(h, Len(launches))

\* C35 witness: the flow toward a host that follows num_server_ports
\* earlier ones has come back to the first port, another host has had
\* flows of its own, and flows were skipped
C35_Witness ==
    /\ flows_skipped > 0
    /\ \E n \in DOMAIN launches :
          /\ EarlierTo(launches[n].to, n - 1) = num_server_ports
          /\ launches[n].port = BASE_PORT
          /\ \E h \in DOMAIN host_port_counter :
                h # launches[n].to /\ host_port_counter[h] >= 1


(***************************************************************************)
(* Claims about the topology handlers (SpecTopo)                           *)
(***************************************************************************)
RoleSetsDisjoint ==
    /\ inter_switches \cap aggr_switches = {}
    /\ inter_switches \cap tor_switches = {}
    /\ aggr_switches \cap tor_switches = {}

\* C33: when a switch with DPID d connects, d becomes a node of the graph
\* and a member of exactly the role set of its range (1000..1999
\* intermediate, 2000..2999 aggregate, 3000..3999 ToR, none otherwise), the
\* other members stay, and a rule of priority 0 that matches everything and
\* outputs to the controller is sent to d; the three role sets are pairwise
\* disjoint in every state.
C33_ConnectRegistersRole ==
    [][/\ RoleSetsDisjoint /\ RoleSetsDisjoint'
       /\ \A d \in TopoDpids :
             (d \notin datapaths /\ d \in datapaths')
               => /\ Dp(d) \in network_graph'.nodes
                  /\ d \in inter_switches' <=> (1000 <= d /\ d <= 1999)
                  /\ d \in aggr_switches' <=> (2000 <= d /\ d <= 2999)
                  /\ d \in tor_switches' <=> (3000 <= d /\ d <= 3999)
                  /\ inter_switches' \ {d} = inter_switches \ {d}
                  /\ aggr_switches' \ {d} = aggr_switches \ {d}
                  /\ tor_switches' \ {d} = tor_switches \ {d}
                  /\ Len(last_out') = 1
                  /\ last_out'[1].type = "FlowMod"
                  /\ last_out'[1].to = d
                  /\ last_out'[1].priority = 0
                  /\ last_out'[1].eth_dst = AnyDst
                  /\ last_out'[1].dscp = NoDscp
                  /\ last_out'[1].out_port = OFPP_CONTROLLER
                  /\ ctl_chan'[d] = Append(ctl_chan[d], last_out'[1])]_vars

\* C33 witness: the switch with DPID 2000 has connected while the switch
\* whose DPID is in no range is connected and in no role set
C33_Witness ==
    /\ last_in # None
    /\ last_in.event = "SwitchFeatures"
    /\ last_in.dpid = AGGR_BASE
    /\ AGGR_BASE \in aggr_switches
    /\ AGGR_BASE \notin inter_switches \cup tor_switches
    /\ Dp(AGGR_BASE) \in network_graph.nodes
    /\ DPID_END \in datapaths
    /\ DPID_END \notin inter_switches \cup aggr_switches \cup tor_switches
    /\ ctl_chan[AGGR_BASE] # <<>>

\* the edges of G that start or end in node n
IncidentEdges(G, n) == {e \in DOMAIN G.port : e[1] = n \/ e[2] = n}

\* C34: a switch leave removes the node of the DPID and every edge to or
\* from it and leaves the other nodes and edges as they were; a switch
\* leave for a DPID that is no node of the graph, and a link delete for an
\* edge that is not in the graph, leave the state of the controller
\* unchanged.
C34_LeaveAndDeleteTolerant ==
    [][/\ (last_in' # last_in /\ last_in'.event = "SwitchLeave")
             => LET n == Dp(last_in'.dpid)
                    G == network_graph
                    H == network_graph'
                IN  /\ n \notin H.nodes
                    /\ IncidentEdges(H, n) = {}
                    /\ H.nodes = G.nodes \ {n}
                    /\ DOMAIN H.port = DOMAIN G.port \ IncidentEdges(G, n)
                    /\ \A e \in DOMAIN H.port : H.port[e] = G.port[e]
                    /\ last_in'.dpid \notin datapaths'
                    /\ last_out' = <<>>
                    /\ n \notin G.nodes => UNCHANGED ctlVars_NoEvent
       /\ (last_in' # last_in /\ last_in'.event = "LinkDelete")
             => LET u == Dp(last_in'.link.src)
                    v == Dp(last_in'.link.dst)
                IN  /\ ~HasEdge(network_graph', u, v)
                    /\ network_graph'.nodes = network_graph.nodes
                    /\ last_out' = <<>>
                    /\ ~HasEdge(network_graph, u, v) => UNCHANGED ctlVars_NoEvent]_vars

\* C34 witness: the aggregate switch has left a graph in which a ToR with
\* a learned host and an intermediate switch keep their nodes
C34_Witness ==
    /\ last_in # None
    /\ last_in.event = "SwitchLeave"
    /\ last_in.dpid = AGGR_BASE
    /\ network_graph.nodes = {Dp(TOR_BASE), Dp(INTER_BASE), Host("mac_h0")}
    /\ DOMAIN network_graph.port = {<<Dp(TOR_BASE), Host("mac_h0")>>, <<Host("mac_h0"), Dp(TOR_BASE)>>}
    /\ datapaths = {TOR_BASE, INTER_BASE}

\* C38: a switch that has left is a member of none of the role sets until
\* it connects again: every member of a role set, and so every switch that
\* get_random_intermediate_node can return, is a node of the graph.
C38_RoleSetsPruned ==
    \A d \in inter_switches \cup aggr_switches \cup tor_switches :
        /\ Dp(d) \in network_graph.nodes
        /\ d \in datapaths


(***************************************************************************)
(* Claims about one PacketIn (SpecLearn)                                   *)
(***************************************************************************)
\* C32: when the destination MAC is attached to the ToR that raised the
\* PacketIn, the controller installs exactly one rule, on that ToR, that
\* outputs to the port the destination was learned on, sends one PacketOut
\* for the packet on that port, and installs no rule on another switch.
C32_LocalSwitching ==
    (UnicastFromHost /\ HasEdge(network_graph, Dp(last_in.dpid), Host(last_in.pkt.dst)))
      => LET port == network_graph.port[<<Dp(last_in.dpid), Host(last_in.pkt.dst)>>]
         IN  /\ Len(last_out) = 2
             /\ Cardinality(LastFlowMods) = 1
             /\ \A m \in LastFlowMods :
                   /\ m.to = last_in.dpid
                   /\ m.eth_dst = last_in.pkt.dst
                   /\ m.out_port = port
             /\ Cardinality(LastPacketOuts) = 1
             /\ \A k \in LastPacketOuts :
                   /\ last_out[k].to = last_in.dpid
                   /\ last_out[k].ports = {port}
                   /\ last_out[k].pkt = last_in.pkt
             /\ last_path = <<Dp(last_in.dpid), Host(last_in.pkt.dst)>>

\* C32 witness: a frame for a host heard on port 1 of ToR 3000 came in on
\* another port of that ToR, and a rule and a PacketOut went to the ToR
C32_Witness ==
    /\ UnicastFromHost
    /\ last_in.dpid = TOR_BASE
    /\ last_in.in_port = 3
    /\ last_in.pkt.dst = "mac_h0"
    /\ HasEdge(network_graph, Dp(TOR_BASE), Host("mac_h0"))
    /\ network_graph.port[<<Dp(TOR_BASE), Host("mac_h0")>>] = 1
    /\ Len(last_out) = 2
    /\ last_out[1].type = "FlowMod"
    /\ last_out[2].type = "PacketOut"

\* the PacketIn is one the controller ignores: LLDP, or from a switch that
\* is no ToR, or from a port of a ToR above the host-facing ports
Ignored(ev) ==
    \/ ev.pkt.ethertype = ETH_TYPE_LLDP
    \/ ~(3000 <= ev.dpid /\ ev.dpid <= 3999)
    \/ ev.in_port > 20

\* C36: a PacketIn that is LLDP, or that comes from an aggregate, an
\* intermediate or a switch of no role, or from a port above 20 of a ToR,
\* causes no FlowMod, no PacketOut and no change of the graph.
C36_IgnoredPacketIn ==
    [][(pktin_queue # <<>> /\ pktin_queue' = Tail(pktin_queue) /\ Ignored(Head(pktin_queue)))
         => /\ network_graph' = network_graph
            /\ last_out' = <<>>
            /\ ctl_chan' = ctl_chan
            /\ last_path' = None
            /\ installed' = installed]_vars

\* C36 witness: an LLDP frame from a host-facing port of a ToR was handled
\* and the host it names as source is no node of the graph
C36_Witness ==
    /\ last_in # None
    /\ pktin_queue = <<>>
    /\ last_in.pkt.ethertype = ETH_TYPE_LLDP
    /\ last_in.dpid = TOR_BASE
    /\ last_in.in_port = 1
    /\ Host(last_in.pkt.src) \notin network_graph.nodes
    /\ last_out = <<>>


(***************************************************************************)
(* Claims about path installation (SpecInstall)                            *)
(***************************************************************************)
\* the matches (eth_dst, DSCP) paths were installed for
InstalledMatches == {[eth_dst |-> i.eth_dst, dscp |-> i.dscp] : i \in installed}

\* the rules of switch sw for the match m
RulesFor(sw, m) ==
    {r \in flow_table[sw] : r.eth_dst = m.eth_dst /\ r.dscp = m.dscp}

\* where the rules for the match m take a frame that is at switch sw, the
\* switches of seen visited before: "host" when a ToR outputs it on a
\* host-facing port, "loop" when it comes to a switch again, "miss" at a
\* switch without one rule for m, "nowhere" on a port without a peer
RECURSIVE Follow(_, _, _)
Follow(sw, m, seen) ==
    IF sw \in seen THEN "loop"
    ELSE IF Cardinality(RulesFor(sw, m)) # 1 THEN "miss"
    ELSE LET r == CHOOSE x \in RulesFor(sw, m) : TRUE
             next == Peer(sw, r.out_port)
         IN  IF next # {}
             THEN Follow((CHOOSE n \in next : TRUE).sw, m, seen \cup {sw})
             ELSE IF classify_switch(sw) = "TOR" /\ r.out_port \in 1..HOSTS_PER_TOR
             THEN "host"
             ELSE "nowhere"

\* no FlowMod is on its way and no PacketIn waits: every installation that
\* was started is complete
InstallationsDone ==
    /\ pktin_queue = <<>>
    /\ \A sw \in DOMAIN ctl_chan : ctl_chan[sw] = <<>>

\* C37: after any sequence of path installations for one match (eth_dst,
\* DSCP), from any source ToR and through any intermediate, a later rule
\* of a switch replacing its earlier rule for the match, following the
\* rules from any switch that holds a rule for the match never comes to a
\* switch twice and ends on a host-facing port.
C37_NoForwardingLoop ==
    InstallationsDone =>
        \A m \in InstalledMatches : \A sw \in Switches :
            RulesFor(sw, m) # {} => Follow(sw, m, {}) = "host"

(***************************************************************************)
(* Claims about the coding pipeline (SpecPipe)                             *)
(***************************************************************************)
\* the number of times x occurs in the sequence s
Occurrences(s, x) == Cardinality({i \in DOMAIN s : s[i] = x})

\* the workers that hold task id t while their request runs
HoldersOf(t) ==
    {w \in DOMAIN workers : workers[w].pc = "execute_task" /\ workers[w].task[1] = t}

\* the number of results collected for task id t, over all workers
CollectedFor(t) == Occurrences(AllResults(worker_results), t)

\* every task of the queue is at one place only: still queued, or held by
\* one worker whose request runs, or executed once and collected once by
\* the worker that held it
TaskTakenOnce ==
    pipeline.phase \in {"workers", "returned", "raised"} /\ DOMAIN workers # {} =>
        \A t \in 0..(pipeline.num_tasks - 1) :
            /\ Occurrences([i \in DOMAIN task_queue |-> task_queue[i][1]], t)
                 + Cardinality(HoldersOf(t)) + Occurrences(llm_calls, t) = 1
            /\ CollectedFor(t) = Occurrences(llm_calls, t)

\* every worker has left its loop
WorkersDone ==
    /\ pipeline.phase \in {"workers", "returned", "raised"}
    /\ DOMAIN workers # {}
    /\ \A w \in DOMAIN workers : workers[w].pc = "done"

\* the workers have run and the pipeline is over
PipelineOver ==
    /\ pipeline.phase \in {"returned", "raised"}
    /\ DOMAIN workers # {}

\* a worker whose queue is empty has left its loop when the pipeline is
\* over; once the workers are done every task was executed once and the
\* counts equal num_tasks, as do the counts the pipeline returns
CountsEqualNumTasks ==
    /\ PipelineOver => \A w \in DOMAIN workers : workers[w].pc = "done"
    /\ WorkersDone \/ PipelineOver =>
          /\ \A t \in 0..(pipeline.num_tasks - 1) : Occurrences(llm_calls, t) = 1
          /\ Len(llm_calls) = pipeline.num_tasks
          /\ SumCompleted(workers, pipeline.num_workers) = pipeline.num_tasks
          /\ Len(AllResults(worker_results)) = pipeline.num_tasks
    /\ pipeline.phase = "returned" =>
          /\ pipeline.result.tasks_completed = pipeline.num_tasks
          /\ Len(pipeline.result.task_results) = pipeline.num_tasks

\* C40: in run_coding_pipeline, with any number >= 1 of workers, every task
\* put on the queue is taken by exactly one worker and executed exactly
\* once; every worker leaves its loop once the queue is empty; when the
\* workers have run and the pipeline is over, the sum of the workers'
\* tasks_completed and the number of collected results both equal
\* num_tasks.
C40_TasksExecutedOnce == TaskTakenOnce /\ CountsEqualNumTasks

\* no llm.invoke of a worker has raised and no worker was cancelled
WorkerCallsReturned ==
    \A w \in DOMAIN workers : workers[w].pc \notin {"raised", "cancelled"}

\* while every llm.invoke of the workers returns, every task is at one
\* place only and the counts equal num_tasks once the workers are done
TasksExecutedOnceWhileCallsReturn ==
    WorkerCallsReturned => TaskTakenOnce /\ CountsEqualNumTasks

\* a pipeline of several workers and more tasks than workers has returned;
\* one worker executed two tasks or more and another worker at least one
ReturnedWithSharedWork ==
    /\ pipeline.phase = "returned"
    /\ pipeline.num_workers >= 2
    /\ pipeline.num_tasks > pipeline.num_workers
    /\ \E w, v \in DOMAIN workers :
          /\ w # v
          /\ workers[w].tasks_completed >= 2
          /\ workers[v].tasks_completed >= 1

====
